---- MODULE Spec2Model ----
(***************************************************************************)
(* Model of run_el_maintenance.py: the guided maintenance procedure of an  *)
(* electrolyser (pre-flight gate, EL2.1 and EL4.x phase sequences, bounded *)
(* waits, water-pipe check, operator checkpoints, failure diagnostics).    *)
(*                                                                         *)
(* The device is the environment: every register read draws its value from *)
(* the values the register can hold, and every Register Link call may fail.*)
(* The script is one sequential process; pc is its position, stack the     *)
(* return positions of the calls in progress.                              *)
(***************************************************************************)
EXTENDS Integers, Sequences, FiniteSets, TLC

VARIABLES
    pc,                 \* position of the script
    stack,              \* return positions of the calls in progress, innermost first
    exc,                \* the exception in flight ("none" when there is none)
    outcome,            \* "running", "clean_exit", "failure" or "success"
    answer,             \* _wait_confirmation: the input() being compared
    written,            \* _write_single_register: what the client's write returned
    initial_state,      \* main: state, passed down as initial_state
    device_model,       \* _run_maintenance: the decoded DeviceModel
    el_21,              \* _perform_refilling: parameter el_21
    draining_required,  \* _run_maintenance_21 / _run_maintenance_4x
    flushing_required,  \* _run_maintenance_4x
    wel,                \* frame of _wait_electrolyte_level
    wrs,                \* frame of _wait_refilling_state
    cwp,                \* frame of _check_water_pipe_connection
    crs,                \* _check_refilling_state: expected_refilling_state
    trace,              \* history: what the run has done so far, in order
    lastSwitches,       \* history: the switches of the latest level read
    lastRefState        \* history: the latest refilling state read

vars == <<pc, stack, exc, outcome, answer, written, initial_state, device_model, el_21,
          draining_required, flushing_required, wel, wrs, cwp, crs,
          trace, lastSwitches, lastRefState>>

----------------------------------------------------------------------------
(* Bounds of the model *)

\* Code words of an events register that are modelled (the device has 32).
EventCap == 2

\* Pressures (reading and configured bounds) range over 0..MaxPressure.
MaxPressure == 2

\* Polls of one wait whose sleep is modelled at its own length; the sleep of
\* a later poll is taken to last until the deadline of the wait.
MaxPolls == 2

----------------------------------------------------------------------------
(* Program constants *)

DRAINING_TIMEOUT == 300 * 2
REFILLING_TIMEOUT == 300
REFILLING_STATE_CHECK_TIMEOUT == 5
ELECTROLYTE_PRESENCE_CHECK_TIMEOUT == 10
REGISTER_WRITE_TIMEOUT == 2
MAX_WATER_PIPE_CONNECT_ATTEMPTS == 5
INPUT_CONFIRMATION == "YES"

\* class ElectrolyteLevel(IntEnum)
EMPTY == 0
LOW == 1
MEDIUM == 2
HIGH == 3
VERY_HIGH == 4

ElectrolyteLevel == EMPTY..VERY_HIGH

\* class Holdings(IntEnum): the registers the script writes
MAINTENANCE_REG == 1013
FLUSHING_REG == 1015

None == "none"

----------------------------------------------------------------------------
(* Enum decoders: IntEnum(value) with _missing_ returning UNKNOWN *)

StateNames ==
    <<"HALTED", "MAINTENANCE_MODE", "IDLE", "STEADY", "STAND_BY", "CURVE",
      "BLOWDOWN", "RECOMBINER">>

State(raw) ==
    IF raw \in 0..(Len(StateNames) - 1) THEN StateNames[raw + 1] ELSE "UNKNOWN"

RefillingStateNames ==
    <<"NONE", "HALT", "IDLE", "FILLING", "DRAINING", "MAINTENANCE",
      "KOH_REFILLING", "MAINTENANCE_REFILLING", "KOH_REFILLING_FINISH",
      "FINAL_REFILLING", "DEMAND_REFILLING", "WAIT_FLUSHING", "FLUSHING",
      "SERVICE_REFILLING">>

RefillingState(raw) ==
    IF raw \in 0..(Len(RefillingStateNames) - 1)
    THEN RefillingStateNames[raw + 1]
    ELSE "UNKNOWN"

\* Raw values a state register is read as: every listed code and one more.
StateRaw == 0..Len(StateNames)
RefillingStateRaw == 0..Len(RefillingStateNames)

\* class ElWarning(IntEnum): the refilling warnings, one other listed
\* warning (WP_04), and _missing_ for the rest.
WR_10 == 12682
WR_20 == 12692
WR_21 == 12693
WR_22 == 12694
WP_04 == 16260

ElWarning(raw) ==
    CASE raw = WR_10 -> "WR_10"
      [] raw = WR_20 -> "WR_20"
      [] raw = WR_21 -> "WR_21"
      [] raw = WR_22 -> "WR_22"
      [] raw = WP_04 -> "WP_04"
      [] OTHER -> "UNKNOWN"

\* class ElError(IntEnum): two listed errors and _missing_ for the rest.
FP_01 == 8065
FR_10 == 4490

ElError(raw) ==
    CASE raw = FP_01 -> "FP_01"
      [] raw = FR_10 -> "FR_10"
      [] OTHER -> "UNKNOWN"

\* class DeviceModel(StrEnum): the ProjectId register holds the four ASCII
\* bytes of the name, two per word.
Word_EL == 17740
Word_ES == 17747
Word_21 == 12849
Word_40 == 13360
Word_41 == 13361

word_list_to_long(words) == words[1] * 65536 + words[2]

\* f'{converted_device_model:x}': the number of hex digits
RECURSIVE HexDigits(_)
HexDigits(long) == IF long < 16 THEN 1 ELSE 1 + HexDigits(long \div 16)

\* The bytes of bytes.fromhex on an even number of digits, last byte first.
RECURSIVE HexBytes(_)
HexBytes(long) ==
    IF long < 256 THEN <<long>> ELSE <<long % 256>> \o HexBytes(long \div 256)

\* bytes.fromhex(...).decode() raises ValueError: fromhex on an odd number
\* of digits, decode (UnicodeDecodeError) on bytes that are not UTF-8.  Of
\* the bytes above 127 the model reads only 255, which no UTF-8 text holds.
NameConversionFails(long) ==
    \/ HexDigits(long) % 2 = 1
    \/ \E i \in 1..Len(HexBytes(long)) : HexBytes(long)[i] = 255

DeviceModel(long) ==
    CASE long = Word_EL * 65536 + Word_21 -> "EL21"
      [] long = Word_EL * 65536 + Word_40 -> "EL40"
      [] long = Word_ES * 65536 + Word_40 -> "ES40"
      [] long = Word_ES * 65536 + Word_41 -> "ES41"
      [] OTHER -> "UNKNOWN"

----------------------------------------------------------------------------
(* Inputs: what the device and the operator can answer *)

Switches == [1..4 -> BOOLEAN]       \* <<low, medium, high, very high>>

\* The names of the two families, two names no family has (EL41, ES21),
\* and two values that are no name at all.
DeviceModelReads ==
    ({Word_EL, Word_ES} \X {Word_21, Word_40, Word_41})
        \cup {<<0, 0>>, <<255, 65535>>}

WarningCodes == {WR_10, WR_20, WR_21, WR_22, WP_04, 1}
ErrorCodes == {FP_01, FR_10, 1}

\* An events register: the count word, then the code words.
EventsRegister(codes) ==
    {<<n>> \o c : n \in 0..(EventCap + 1), c \in [1..EventCap -> codes]}

PressureReads == 0..MaxPressure

\* REFILLING_MIXINGTIME_MS, two words of a uint32
MixingTimeReads ==
    {<<0, 0>>, <<0, 999>>, <<0, 1000>>, <<0, 2500>>, <<0, 12000>>}

OperatorInputs == {"YES", "yes", "no", ""}

----------------------------------------------------------------------------
(* Electrolyte Level Sensor *)

RECURSIVE ScanFromTop(_, _, _)
ScanFromTop(switches, enabled, index) ==
    IF index >= Len(switches) THEN 0
    ELSE IF switches[Len(switches) - index] = enabled
         THEN Len(switches) - index
         ELSE ScanFromTop(switches, enabled, index + 1)

\* Mutant: the search runs over the switches from the bottom.
search_bottom_switch(switches, enabled) ==
    IF \E i \in 1..Len(switches) : switches[i] = enabled
    THEN CHOOSE i \in 1..Len(switches) :
            /\ switches[i] = enabled
            /\ \A j \in 1..(i - 1) : switches[j] # enabled
    ELSE 0

\* next(len(switches) - index for index, switch in
\*      enumerate(reversed(switches)) if switch is enabled), 0)
search_top_switch(switches, enabled) == ScanFromTop(switches, enabled, 0)

\* Mutant: a gap is clamped to the level below it instead of raised.
electrolyte_level_clamped(switches) ==
    [ok |-> TRUE,
     level |-> search_top_switch(switches, FALSE) - 1,
     top_disabled_level |-> 0]

\* Mutant: the disabled switch is searched among all four switches.
electrolyte_level_whole(switches) ==
    LET level == search_top_switch(switches, TRUE)
        switches_below_max == SubSeq(switches, 1, level)
    IN  IF \E i \in 1..Len(switches_below_max) : ~switches_below_max[i]
        THEN [ok |-> FALSE, level |-> level,
              top_disabled_level |-> search_top_switch(switches, FALSE)]
        ELSE [ok |-> TRUE, level |-> level, top_disabled_level |-> 0]

\* The result of _electrolyte_level on the four switches read: the level, or
\* the MaintenanceModeException naming the detected level and
\* top_disabled_level.
electrolyte_level(switches) ==
    LET level == search_top_switch(switches, TRUE)
        switches_below_max == SubSeq(switches, 1, level)
    IN  IF \E i \in 1..Len(switches_below_max) : ~switches_below_max[i]
        THEN [ok |-> FALSE, level |-> level,
              top_disabled_level |->
                  search_top_switch(switches_below_max, FALSE)]
        ELSE [ok |-> TRUE, level |-> level, top_disabled_level |-> 0]

----------------------------------------------------------------------------
(* Control: calls, returns, exceptions *)

NoWel == [expected_level |-> 0, timeout |-> 0, refilling |-> FALSE,
          elapsed |-> 0]
\* mixing_time_ms: the REFILLING_MIXINGTIME_MS value the timeout was
\* computed from
NoWrs == [expected_state |-> None, timeout |-> 0, elapsed |-> 0,
          mixing_time_ms |-> 0]
NoCwp == [expect_no_electrolyte |-> FALSE, attempts |-> 0,
          water_pipe_connect_attempts |-> 0, pressure_ok |-> FALSE,
          electrolyte_ok |-> FALSE, min_pressure |-> 0, max_pressure |-> 0,
          actual_water_inlet_pressure |-> 0]

progv == <<answer, written, initial_state, device_model, el_21,
           draining_required, flushing_required>>
framev == <<wel, wrs, cwp, crs>>

E(kind, arg) == <<kind, arg>>

\* The history after these events.  It records the milestones of the phase
\* sequence: of a water-pipe check it records the result, not the steps of
\* its attempts.
Logged(events) == IF cwp.attempts > 0 THEN trace ELSE trace \o events

Goto(label) == pc' = label /\ stack' = stack
Call(target, ret) == pc' = target /\ stack' = <<ret>> \o stack
Return == pc' = Head(stack) /\ stack' = Tail(stack)

\* Mutant: the second try of _perform_refilling catches the timeout too.
Handler_timeout(site, kind) ==
    IF site = "refilling_else"
    THEN IF kind = "LevelOvershoot" THEN "refilling_except1"
         ELSE "refilling_finally"
    ELSE IF site = "refilling_finally" THEN "refilling_finally"
    ELSE IF site = "refilling_finish"
            /\ kind \in {"LevelOvershoot", "PhaseTimeout"}
    THEN "refilling_except2"
    ELSE IF site = "m4x_finish" /\ kind = "WaterPipeFault"
    THEN "m4x_pipe_except"
    ELSE None

\* Mutant: the first try of _perform_refilling takes a failed assertion of
\* its else clause the way it takes an overshoot.
Handler_state(site, kind) ==
    IF site = "refilling_else"
    THEN IF kind = "LevelOvershoot" THEN "refilling_except1"
         ELSE "refilling_finally"
    ELSE IF site = "refilling_finally"
    THEN IF kind = "UnexpectedState" THEN "refilling_except1"
         ELSE "refilling_finally"
    ELSE IF site = "refilling_finish" /\ kind = "LevelOvershoot"
    THEN "refilling_except2"
    ELSE IF site = "m4x_finish" /\ kind = "WaterPipeFault"
    THEN "m4x_pipe_except"
    ELSE None

\* The except clauses of the script.  A call is named by the position it
\* returns to; Handler is the position at which an exception of that kind
\* leaving that call is taken up, or None when no try statement around the
\* call handles it.
\*   _perform_refilling, first try: except HighElectrolyteLevelException,
\*     else, finally (every exception leaving the try, the except or the
\*     else clause runs the finally clause first);
\*   _perform_refilling, second try: except HighElectrolyteLevelException;
\*   _run_maintenance_4x: except WaterPipeException.
Handler(site, kind) ==
    IF site = "refilling_else"
    THEN IF kind = "LevelOvershoot" THEN "refilling_except1"
         ELSE "refilling_finally"
    ELSE IF site = "refilling_finally" THEN "refilling_finally"
    ELSE IF site = "refilling_finish" /\ kind = "LevelOvershoot"
    THEN "refilling_except2"
    ELSE IF site = "m4x_finish" /\ kind = "WaterPipeFault"
    THEN "m4x_pipe_except"
    ELSE None

\* The positions that are except clauses of a named exception class: the
\* exception is caught there and is no longer in flight.
ExceptClauses == {"refilling_except1", "refilling_except2", "m4x_pipe_except"}

\* Unwinding: the innermost call with a handler takes the exception; with
\* none, main's "except Exception" does.
RECURSIVE Unwind(_, _)
Unwind(stk, kind) ==
    IF stk = <<>> THEN [pc |-> "main_except", stack |-> <<>>]
    ELSE IF Handler(Head(stk), kind) # None
         THEN [pc |-> Handler(Head(stk), kind), stack |-> Tail(stk)]
         ELSE Unwind(Tail(stk), kind)

\* raise: every frame of a call that is left is dropped.
Propagate(kind, events) ==
    LET h == Unwind(stack, kind)
    IN  /\ pc' = h.pc
        /\ stack' = h.stack
        /\ exc' = IF h.pc \in ExceptClauses THEN None ELSE kind
        /\ trace' = trace \o events \o
                 (IF h.pc \in ExceptClauses THEN <<E("catch", kind)>>
                  ELSE <<>>)
        /\ wel' = NoWel /\ wrs' = NoWrs /\ cwp' = NoCwp /\ crs' = None

Raise(kind) ==
    /\ Propagate(kind, <<E("raise", kind)>>)
    /\ UNCHANGED <<outcome, progv>>

----------------------------------------------------------------------------
(* Shared sub-procedures *)

\* _wait_confirmation: print(prompt)
wait_confirmation ==
    /\ pc = "wait_confirmation"
    /\ pc' = "wait_input" /\ stack' = stack
    /\ trace' = Logged(<<E("checkpoint", Head(stack))>>)
    /\ UNCHANGED <<exc, outcome, progv, framev, lastSwitches, lastRefState>>

\* _wait_confirmation: input()
wait_input ==
    /\ pc = "wait_input"
    /\ \E text \in OperatorInputs : answer' = text
    /\ Goto("wait_compare")
    /\ UNCHANGED <<exc, outcome, written, initial_state, device_model, el_21,
                   draining_required, flushing_required, framev, trace,
                   lastSwitches, lastRefState>>

\* Mutant: the answer is compared as typed.
Upper_as_typed(s) == s

\* str.upper() on the operator's inputs
Upper(s) == IF s = "yes" THEN "YES" ELSE IF s = "no" THEN "NO" ELSE s

\* _wait_confirmation: while input().upper() != INPUT_CONFIRMATION:
\* print(prompt).  The answer is not kept.
wait_compare ==
    /\ pc = "wait_compare"
    /\ IF Upper(answer) # INPUT_CONFIRMATION
       THEN Goto("wait_input")
       ELSE Return
    /\ answer' = ""
    /\ UNCHANGED <<exc, outcome, written, initial_state, device_model, el_21,
                   draining_required, flushing_required, framev, trace,
                   lastSwitches, lastRefState>>

\* Mutant: the state read is reported and not compared.
check_refilling_state_any ==
    /\ pc = "check_refilling_state"
    /\ \/ /\ lastRefState' = None
          /\ Raise("LinkError")
       \/ \E raw \in RefillingStateRaw :
             /\ lastRefState' = RefillingState(raw)
             /\ Return
             /\ crs' = None
             /\ trace' = Logged(<<E("assert", crs)>>)
             /\ UNCHANGED <<exc, outcome, progv, wel, wrs, cwp>>
    /\ UNCHANGED lastSwitches

\* _check_refilling_state
check_refilling_state ==
    /\ pc = "check_refilling_state"
    /\ \/ /\ lastRefState' = None
          /\ Raise("LinkError")
       \/ \E raw \in RefillingStateRaw :
             /\ lastRefState' = RefillingState(raw)
             /\ IF RefillingState(raw) # crs
                THEN Raise("UnexpectedState")
                ELSE /\ Return
                     /\ crs' = None
                     /\ trace' = Logged(<<E("assert", crs)>>)
                     /\ UNCHANGED <<exc, outcome, progv, wel, wrs, cwp>>
    /\ UNCHANGED lastSwitches

\* _toggle_maintenance / _toggle_flushing -> _write_single_register: the
\* result of write_single_register is not looked at, and the settle delay
\* follows.
write_single_register(address, value) ==
    /\ \E acknowledged \in BOOLEAN : written' = acknowledged
    /\ trace' = Append(trace, E("write", <<address, value>>))
    /\ UNCHANGED <<answer, initial_state, device_model, el_21,
                   draining_required, flushing_required>>

\* Mutant: the write returns without the sleep.
write_settle_skipped ==
    /\ pc = "write_settle"
    /\ Return
    /\ written' = TRUE
    /\ UNCHANGED <<exc, outcome, answer, initial_state, device_model, el_21,
                   draining_required, flushing_required, framev, trace,
                   lastSwitches, lastRefState>>

\* _write_single_register: time.sleep(REGISTER_WRITE_TIMEOUT).  What the
\* write returned was dropped with the call; it is not kept here either.
write_settle ==
    /\ pc = "write_settle"
    /\ Return
    /\ written' = TRUE
    /\ trace' = Append(trace, E("sleep", REGISTER_WRITE_TIMEOUT))
    /\ UNCHANGED <<exc, outcome, answer, initial_state, device_model, el_21,
                   draining_required, flushing_required, framev,
                   lastSwitches, lastRefState>>

BoolToInt(b) == IF b THEN 1 ELSE 0

toggle_maintenance(enable) ==
    write_single_register(MAINTENANCE_REG, BoolToInt(enable))

\* Mutant: the flushing register is written like the maintenance register.
toggle_flushing_direct(enable) ==
    write_single_register(FLUSHING_REG, BoolToInt(enable))

\* value=int(not enable): the register means "skip flushing"
toggle_flushing(enable) ==
    write_single_register(FLUSHING_REG, BoolToInt(~enable))

\* Mutant: maintenance-on is written whatever the initial state.
maintenance_on_always ==
    /\ pc = "maintenance_on"
    /\ toggle_maintenance(TRUE)
    /\ Call("write_settle", "maintenance_on_state")
    /\ UNCHANGED <<exc, outcome, framev, lastSwitches, lastRefState>>

\* _maintenance_on: the write
maintenance_on ==
    /\ pc = "maintenance_on"
    /\ IF initial_state = "IDLE"
       THEN /\ toggle_maintenance(TRUE)
            /\ Call("write_settle", "maintenance_on_state")
       ELSE /\ Return
            /\ UNCHANGED <<progv, trace>>
    /\ UNCHANGED <<exc, outcome, framev, lastSwitches, lastRefState>>

\* _maintenance_on: the state read after the write
maintenance_on_state ==
    /\ pc = "maintenance_on_state"
    /\ \/ Raise("LinkError")
       \/ \E raw \in StateRaw :
             IF State(raw) # "MAINTENANCE_MODE"
             THEN Raise("UnexpectedState")
             ELSE /\ Return
                  /\ trace' = Logged(<<E("state", State(raw))>>)
                  /\ UNCHANGED <<exc, outcome, progv, framev>>
    /\ UNCHANGED <<lastSwitches, lastRefState>>

\* _maintenance_off: the write
maintenance_off ==
    /\ pc = "maintenance_off"
    /\ toggle_maintenance(FALSE)
    /\ Call("write_settle", "maintenance_off_state")
    /\ UNCHANGED <<exc, outcome, framev, lastSwitches, lastRefState>>

\* _maintenance_off: the state read after the write
maintenance_off_state ==
    /\ pc = "maintenance_off_state"
    /\ \/ Raise("LinkError")
       \/ \E raw \in StateRaw :
             IF State(raw) # "IDLE"
             THEN Raise("UnexpectedState")
             ELSE /\ Return
                  /\ trace' = Logged(<<E("state", State(raw))>>)
                  /\ UNCHANGED <<exc, outcome, progv, framev>>
    /\ UNCHANGED <<lastSwitches, lastRefState>>

Min(a, b) == IF a < b THEN a ELSE b

\* Mutant: no time passes while a poll sleeps.
Slept_frozen(frame, interval) == {frame.elapsed}

\* The time that has passed when a poll's sleep is over: the sleep itself,
\* or more when the reads of the poll were slow (here: until the deadline).
Slept(frame, interval) ==
    {frame.timeout} \cup
    (IF frame.elapsed + interval <= MaxPolls * interval
     THEN {Min(frame.elapsed + interval, frame.timeout)}
     ELSE {})

\* The comparison of a level read with the level waited for.
LevelReached(level, expected_level) == level = expected_level

\* Mutant: the flag is ignored.
LevelOvershoot_unflagged(level, expected_level, refilling) ==
    level > expected_level

LevelOvershoot(level, expected_level, refilling) ==
    refilling /\ level > expected_level

\* _wait_electrolyte_level: one turn of the loop, or its else clause
wait_electrolyte_level ==
    /\ pc = "wait_electrolyte_level"
    /\ IF wel.elapsed < wel.timeout
       THEN \/ /\ lastSwitches' = <<>>
               /\ Raise("LinkError")
            \/ \E sw \in Switches :
                  /\ lastSwitches' = sw
                  /\ LET r == electrolyte_level(sw)
                     IN  IF ~r.ok THEN Raise("HardwareInconsistency")
                         ELSE IF LevelReached(r.level, wel.expected_level)
                         THEN /\ Return
                              /\ wel' = NoWel
                              /\ trace' = Logged(<<E("level", r.level)>>)
                              /\ UNCHANGED <<exc, outcome, progv, wrs, cwp,
                                             crs>>
                         ELSE IF LevelOvershoot(r.level, wel.expected_level,
                                                wel.refilling)
                         THEN Raise("LevelOvershoot")
                         ELSE /\ \E t \in Slept(wel,
                                        ELECTROLYTE_PRESENCE_CHECK_TIMEOUT) :
                                     wel' = [wel EXCEPT !.elapsed = t]
                              /\ UNCHANGED <<pc, stack, exc, outcome, progv,
                                             wrs, cwp, crs, trace>>
       ELSE /\ Raise("PhaseTimeout")
            /\ UNCHANGED lastSwitches
    /\ UNCHANGED lastRefState

\* _wait_refilling_state: one turn of the loop, or its else clause
wait_refilling_state ==
    /\ pc = "wait_refilling_state"
    /\ IF wrs.elapsed < wrs.timeout
       THEN \/ /\ lastRefState' = None
               /\ Raise("LinkError")
            \/ \E raw \in RefillingStateRaw :
                  /\ lastRefState' = RefillingState(raw)
                  /\ IF RefillingState(raw) = wrs.expected_state
                     THEN /\ Return
                          /\ wrs' = NoWrs
                          /\ trace' = Logged(
                                 <<E("refilling_state", RefillingState(raw))>>)
                          /\ UNCHANGED <<exc, outcome, progv, wel, cwp, crs>>
                     ELSE /\ \E t \in Slept(wrs,
                                        REFILLING_STATE_CHECK_TIMEOUT) :
                                 wrs' = [wrs EXCEPT !.elapsed = t]
                          /\ UNCHANGED <<pc, stack, exc, outcome, progv, wel,
                                         cwp, crs, trace>>
       ELSE /\ Raise("PhaseTimeout")
            /\ UNCHANGED lastRefState
    /\ UNCHANGED lastSwitches

\* _format_event: the name and the value
format_event(name, value) == <<name, value>>

\* _decode_events on the words read: raw_events_data[1:events_count + 1]
\* mapped through the event type, nothing when the count is 0.
\* event_type(event).name, for the two enumerations the script decodes with
EventName(event_type, event) ==
    IF event_type = "ElWarning" THEN ElWarning(event) ELSE ElError(event)

\* Mutant: the slice runs one word further.
decode_events_inclusive(raw_events_data, event_type) ==
    LET events_count == raw_events_data[1]
        last == Min(events_count + 2, Len(raw_events_data))
    IN  IF events_count # 0
        THEN [i \in 1..(last - 1) |->
                 format_event(EventName(event_type, raw_events_data[i + 1]),
                              raw_events_data[i + 1])]
        ELSE <<>>

decode_events(raw_events_data, event_type) ==
    LET events_count == raw_events_data[1]
        last == Min(events_count + 1, Len(raw_events_data))
    IN  IF events_count # 0
        THEN [i \in 1..(last - 1) |->
                 format_event(EventName(event_type, raw_events_data[i + 1]),
                              raw_events_data[i + 1])]
        ELSE <<>>

\* The warnings _check_refilling_warnings looks for.
RefillingWarnings ==
    {format_event("WR_10", WR_10), format_event("WR_20", WR_20),
     format_event("WR_21", WR_21), format_event("WR_22", WR_22)}

\* Mutant: any active warning counts.
refilling_warning_any(active_warnings) == active_warnings # <<>>

refilling_warning_active(active_warnings) ==
    \E i \in 1..Len(active_warnings) : active_warnings[i] \in RefillingWarnings

\* _check_refilling_warnings on the words read from the warnings register
check_refilling_warnings_on(raw) ==
    IF refilling_warning_active(decode_events(raw, "ElWarning"))
    THEN Raise("RefillingWarnings")
    ELSE /\ Return
         /\ trace' = Logged(<<E("warnings", "checked")>>)
         /\ UNCHANGED <<exc, outcome, progv, framev>>

\* _check_refilling_warnings
check_refilling_warnings ==
    /\ pc = "check_refilling_warnings"
    /\ \/ Raise("LinkError")
       \/ \E raw \in EventsRegister(WarningCodes) :
             check_refilling_warnings_on(raw)
    /\ UNCHANGED <<lastSwitches, lastRefState>>

\* Mutant: a started second counts.
actual_refilling_mixing_time_up(words) ==
    (word_list_to_long(words) + 999) \div 1000

\* _actual_refilling_mixing_time: milliseconds to whole seconds
actual_refilling_mixing_time(words) == word_list_to_long(words) \div 1000

\* Mutant: the lower bound is allowed.
pressure_from_min(min_pressure, pressure, max_pressure) ==
    min_pressure <= pressure /\ pressure < max_pressure

\* min_pressure < actual_water_inlet_pressure < max_pressure
pressure_in_bounds(min_pressure, pressure, max_pressure) ==
    min_pressure < pressure /\ pressure < max_pressure

\* _check_water_pipe_connection: the reads of the configured bounds
check_water_pipe_connection ==
    /\ pc = "check_water_pipe_connection"
    /\ \/ Raise("LinkError")
       \/ \E mn \in PressureReads, mx \in PressureReads :
             /\ cwp' = [cwp EXCEPT !.min_pressure = mn, !.max_pressure = mx]
             /\ Goto("pipe_loop")
             /\ UNCHANGED <<exc, outcome, progv, wel, wrs, crs, trace>>
    /\ UNCHANGED <<lastSwitches, lastRefState>>

\* _check_water_pipe_connection: the loop condition and the pressure check
\* of an attempt, or the else clause of the loop
pipe_loop ==
    /\ pc = "pipe_loop"
    /\ IF cwp.water_pipe_connect_attempts < cwp.attempts
       THEN \/ Raise("LinkError")
            \/ \E p \in PressureReads :
                  /\ cwp' = [cwp EXCEPT
                        !.actual_water_inlet_pressure = p,
                        !.pressure_ok =
                            @ \/ pressure_in_bounds(cwp.min_pressure, p,
                                                    cwp.max_pressure),
                        !.electrolyte_ok =
                            IF cwp.expect_no_electrolyte THEN @ ELSE TRUE]
                  /\ Goto(IF cwp.expect_no_electrolyte THEN "pipe_electrolyte"
                          ELSE "pipe_decide")
                  /\ UNCHANGED <<exc, outcome, progv, wel, wrs, crs, trace>>
       ELSE Raise("WaterPipeFault")
    /\ UNCHANGED <<lastSwitches, lastRefState>>

\* Mutant: electrolyte found in an attempt is reported and not drained.
pipe_electrolyte_undrained ==
    /\ pc = "pipe_electrolyte"
    /\ \/ /\ lastSwitches' = <<>>
          /\ Raise("LinkError")
       \/ \E sw \in Switches :
             /\ lastSwitches' = sw
             /\ LET r == electrolyte_level(sw)
                IN  IF ~r.ok THEN Raise("HardwareInconsistency")
                    ELSE /\ cwp' = [cwp EXCEPT !.electrolyte_ok =
                                                  @ \/ r.level = EMPTY]
                         /\ Goto("pipe_decide")
                         /\ UNCHANGED <<exc, outcome, progv, wel, wrs, crs,
                                        trace>>
    /\ UNCHANGED lastRefState

\* _check_water_pipe_connection: the electrolyte presence check of an attempt
pipe_electrolyte ==
    /\ pc = "pipe_electrolyte"
    /\ \/ /\ lastSwitches' = <<>>
          /\ Raise("LinkError")
       \/ \E sw \in Switches :
             /\ lastSwitches' = sw
             /\ LET r == electrolyte_level(sw)
                IN  IF ~r.ok THEN Raise("HardwareInconsistency")
                    ELSE /\ IF r.level = EMPTY
                            THEN /\ cwp' = [cwp EXCEPT !.electrolyte_ok = TRUE]
                                 /\ Goto("pipe_decide")
                            ELSE /\ cwp' = cwp
                                 /\ Call("perform_draining", "pipe_drained")
                         /\ UNCHANGED <<exc, outcome, progv, wel, wrs, crs,
                                        trace>>
    /\ UNCHANGED lastRefState

\* _check_water_pipe_connection: after the inline draining
pipe_drained ==
    /\ pc = "pipe_drained"
    /\ crs' = "WAIT_FLUSHING"
    /\ Call("check_refilling_state", "pipe_decide")
    /\ UNCHANGED <<exc, outcome, progv, wel, wrs, cwp, trace, lastSwitches,
                   lastRefState>>

\* _check_water_pipe_connection: break, or the retry prompt
pipe_decide ==
    /\ pc = "pipe_decide"
    /\ IF cwp.pressure_ok /\ cwp.electrolyte_ok
       THEN /\ Return
            /\ cwp' = NoCwp
            /\ trace' = Append(trace, E("pipe", "ok"))
       ELSE /\ Call("wait_confirmation", "pipe_retry")
            /\ UNCHANGED <<cwp, trace>>
    /\ UNCHANGED <<exc, outcome, progv, wel, wrs, crs, lastSwitches,
                   lastRefState>>

\* _check_water_pipe_connection: water_pipe_connect_attempts += 1
pipe_retry ==
    /\ pc = "pipe_retry"
    /\ cwp' = [cwp EXCEPT !.water_pipe_connect_attempts = @ + 1]
    /\ Goto("pipe_loop")
    /\ UNCHANGED <<exc, outcome, progv, wel, wrs, crs, trace, lastSwitches,
                   lastRefState>>

----------------------------------------------------------------------------
(* Phases *)

\* History: what _handle_very_high_electrolyte_level read, as far as its
\* condition "is ElectrolyteLevel.VERY_HIGH" tells levels apart.
LevelSeen(level) == IF level = VERY_HIGH THEN "VERY_HIGH" ELSE "other"

\* Mutant: every model gets the manual checkpoint.
VeryHighHandling_any_model(level, is_el_21) ==
    IF level = VERY_HIGH THEN "checkpoint" ELSE "return"

\* What _handle_very_high_electrolyte_level does on the level it read:
\* the manual checkpoint (EL2.1) or the exception (other models) when the
\* level is VERY_HIGH, nothing otherwise.
VeryHighHandling(level, is_el_21) ==
    IF level = VERY_HIGH
    THEN IF is_el_21 THEN "checkpoint" ELSE "raise"
    ELSE "return"

\* _handle_very_high_electrolyte_level: the level read and the branch
handle_very_high ==
    /\ pc = "handle_very_high"
    /\ \/ /\ lastSwitches' = <<>>
          /\ Raise("LinkError")
       \/ \E sw \in Switches :
             /\ lastSwitches' = sw
             /\ LET r == electrolyte_level(sw)
                    reread == E("reread", LevelSeen(r.level))
                IN  IF ~r.ok THEN Raise("HardwareInconsistency")
                    ELSE IF VeryHighHandling(r.level, el_21) = "checkpoint"
                    THEN /\ Call("wait_confirmation", "handle_very_high_wait")
                         /\ trace' = Logged(<<reread>>)
                         /\ UNCHANGED <<exc, outcome, progv, framev>>
                    ELSE IF VeryHighHandling(r.level, el_21) = "raise"
                    THEN /\ Propagate("VeryHighLevel",
                                      <<reread, E("raise", "VeryHighLevel")>>)
                         /\ UNCHANGED <<outcome, progv>>
                    ELSE /\ Return
                         /\ trace' = Logged(<<reread>>)
                         /\ UNCHANGED <<exc, outcome, progv, framev>>
    /\ UNCHANGED lastRefState

\* _handle_very_high_electrolyte_level: the wait for HIGH after the operator
\* confirmed; it is the last statement, so the wait returns to the caller.
handle_very_high_wait ==
    /\ pc = "handle_very_high_wait"
    /\ wel' = [expected_level |-> HIGH, timeout |-> REFILLING_TIMEOUT,
               refilling |-> FALSE, elapsed |-> 0]
    /\ Goto("wait_electrolyte_level")
    /\ UNCHANGED <<exc, outcome, progv, wrs, cwp, crs, trace, lastSwitches,
                   lastRefState>>

\* _perform_draining: the assertion of DRAINING
perform_draining ==
    /\ pc = "perform_draining"
    /\ crs' = "DRAINING"
    /\ Call("check_refilling_state", "draining_confirm")
    /\ trace' = Logged(<<E("phase", "draining")>>)
    /\ UNCHANGED <<exc, outcome, progv, wel, wrs, cwp, lastSwitches,
                   lastRefState>>

\* _perform_draining: the operator checkpoint
draining_confirm ==
    /\ pc = "draining_confirm"
    /\ Call("wait_confirmation", "draining_wait")
    /\ UNCHANGED <<exc, outcome, progv, framev, trace, lastSwitches,
                   lastRefState>>

\* Mutant: the draining waits on the budget of the refilling.
draining_wait_short ==
    /\ pc = "draining_wait"
    /\ wel' = [expected_level |-> EMPTY, timeout |-> REFILLING_TIMEOUT,
               refilling |-> FALSE, elapsed |-> 0]
    /\ Call("wait_electrolyte_level", "draining_return")
    /\ UNCHANGED <<exc, outcome, progv, wrs, cwp, crs, trace, lastSwitches,
                   lastRefState>>

\* _perform_draining: the wait for EMPTY
draining_wait ==
    /\ pc = "draining_wait"
    /\ wel' = [expected_level |-> EMPTY, timeout |-> DRAINING_TIMEOUT,
               refilling |-> FALSE, elapsed |-> 0]
    /\ Call("wait_electrolyte_level", "draining_return")
    /\ UNCHANGED <<exc, outcome, progv, wrs, cwp, crs, trace, lastSwitches,
                   lastRefState>>

draining_return ==
    /\ pc = "draining_return"
    /\ Return
    /\ trace' = Logged(<<E("done", "draining")>>)
    /\ UNCHANGED <<exc, outcome, progv, framev, lastSwitches, lastRefState>>

\* _perform_flushing: the assertion of WAIT_FLUSHING
perform_flushing ==
    /\ pc = "perform_flushing"
    /\ crs' = "WAIT_FLUSHING"
    /\ Call("check_refilling_state", "flushing_confirm")
    /\ trace' = Logged(<<E("phase", "flushing")>>)
    /\ UNCHANGED <<exc, outcome, progv, wel, wrs, cwp, lastSwitches,
                   lastRefState>>

\* _perform_flushing: the first operator checkpoint
flushing_confirm ==
    /\ pc = "flushing_confirm"
    /\ Call("wait_confirmation", "flushing_pipe")
    /\ UNCHANGED <<exc, outcome, progv, framev, trace, lastSwitches,
                   lastRefState>>

\* _perform_flushing: the water-pipe check
flushing_pipe ==
    /\ pc = "flushing_pipe"
    /\ cwp' = [NoCwp EXCEPT !.expect_no_electrolyte = TRUE,
                            !.attempts = MAX_WATER_PIPE_CONNECT_ATTEMPTS]
    /\ Call("check_water_pipe_connection", "flushing_confirm2")
    /\ UNCHANGED <<exc, outcome, progv, wel, wrs, crs, trace, lastSwitches,
                   lastRefState>>

\* _perform_flushing: the second operator checkpoint
flushing_confirm2 ==
    /\ pc = "flushing_confirm2"
    /\ Call("wait_confirmation", "flushing_on")
    /\ UNCHANGED <<exc, outcome, progv, framev, trace, lastSwitches,
                   lastRefState>>

\* _perform_flushing: _flushing_on
flushing_on ==
    /\ pc = "flushing_on"
    /\ toggle_flushing(TRUE)
    /\ Call("write_settle", "flushing_wait")
    /\ UNCHANGED <<exc, outcome, framev, lastSwitches, lastRefState>>

\* _perform_flushing: the wait for HIGH
flushing_wait ==
    /\ pc = "flushing_wait"
    /\ wel' = [expected_level |-> HIGH, timeout |-> REFILLING_TIMEOUT,
               refilling |-> TRUE, elapsed |-> 0]
    /\ Call("wait_electrolyte_level", "flushing_warnings")
    /\ UNCHANGED <<exc, outcome, progv, wrs, cwp, crs, trace, lastSwitches,
                   lastRefState>>

\* _perform_flushing: the refilling-warnings check
flushing_warnings ==
    /\ pc = "flushing_warnings"
    /\ Call("check_refilling_warnings", "flushing_mixing")
    /\ UNCHANGED <<exc, outcome, progv, framev, trace, lastSwitches,
                   lastRefState>>

\* _perform_flushing: the mixing time read and the wait for DRAINING
flushing_mixing ==
    /\ pc = "flushing_mixing"
    /\ \/ Raise("LinkError")
       \/ \E words \in MixingTimeReads :
             /\ wrs' = [expected_state |-> "DRAINING",
                        timeout |-> actual_refilling_mixing_time(words) * 2,
                        elapsed |-> 0,
                        mixing_time_ms |-> word_list_to_long(words)]
             /\ Call("wait_refilling_state", "flushing_draining")
             /\ UNCHANGED <<exc, outcome, progv, wel, cwp, crs, trace>>
    /\ UNCHANGED <<lastSwitches, lastRefState>>

\* _perform_flushing: the second draining
flushing_draining ==
    /\ pc = "flushing_draining"
    /\ Call("perform_draining", "flushing_return")
    /\ UNCHANGED <<exc, outcome, progv, framev, trace, lastSwitches,
                   lastRefState>>

flushing_return ==
    /\ pc = "flushing_return"
    /\ Return
    /\ trace' = Logged(<<E("done", "flushing")>>)
    /\ UNCHANGED <<exc, outcome, progv, framev, lastSwitches, lastRefState>>

\* refill_to_level
refill_to_level(is_el_21) == IF is_el_21 THEN HIGH ELSE MEDIUM

\* _perform_refilling: the assertion of MAINTENANCE
perform_refilling ==
    /\ pc = "perform_refilling"
    /\ crs' = "MAINTENANCE"
    /\ Call("check_refilling_state", "refilling_confirm")
    /\ trace' = Logged(<<E("phase", "refilling")>>)
    /\ UNCHANGED <<exc, outcome, progv, wel, wrs, cwp, lastSwitches,
                   lastRefState>>

\* _perform_refilling: the operator checkpoint
refilling_confirm ==
    /\ pc = "refilling_confirm"
    /\ Call("wait_confirmation", "refilling_try")
    /\ UNCHANGED <<exc, outcome, progv, framev, trace, lastSwitches,
                   lastRefState>>

\* _perform_refilling: first try, the wait for LOW
refilling_try ==
    /\ pc = "refilling_try"
    /\ wel' = [expected_level |-> LOW, timeout |-> REFILLING_TIMEOUT,
               refilling |-> TRUE, elapsed |-> 0]
    /\ Call("wait_electrolyte_level", "refilling_else")
    /\ UNCHANGED <<exc, outcome, progv, wrs, cwp, crs, trace, lastSwitches,
                   lastRefState>>

\* _perform_refilling: first try, except HighElectrolyteLevelException
refilling_except1 ==
    /\ pc = "refilling_except1"
    /\ Call("handle_very_high", "refilling_finally")
    /\ UNCHANGED <<exc, outcome, progv, framev, trace, lastSwitches,
                   lastRefState>>

\* _perform_refilling: first try, else
refilling_else ==
    /\ pc = "refilling_else"
    /\ crs' = "KOH_REFILLING"
    /\ Call("check_refilling_state", "refilling_finally")
    /\ UNCHANGED <<exc, outcome, progv, wel, wrs, cwp, trace, lastSwitches,
                   lastRefState>>

\* The finally clause is over: an exception in flight goes on, otherwise
\* the statement after the try follows.
EndFinally ==
    IF exc # None
    THEN /\ Propagate(exc, <<>>)
         /\ UNCHANGED <<outcome, progv>>
    ELSE /\ Goto("refilling_level")
         /\ UNCHANGED <<exc, outcome, progv, framev, trace>>

\* _perform_refilling: first try, finally
refilling_finally ==
    /\ pc = "refilling_finally"
    /\ IF el_21
       THEN \/ /\ lastSwitches' = <<>>
               /\ Raise("LinkError")
            \/ \E sw \in Switches :
                  /\ lastSwitches' = sw
                  /\ LET r == electrolyte_level(sw)
                     IN  IF ~r.ok THEN Raise("HardwareInconsistency")
                         ELSE IF r.level < HIGH
                         THEN /\ crs' = "KOH_REFILLING"
                              /\ Call("check_refilling_state",
                                      "refilling_finally_end")
                              /\ UNCHANGED <<exc, outcome, progv, wel, wrs,
                                             cwp, trace>>
                         ELSE EndFinally
       ELSE /\ EndFinally
            /\ UNCHANGED lastSwitches
    /\ UNCHANGED lastRefState

\* _perform_refilling: first try, the end of finally after its assertion
refilling_finally_end ==
    /\ pc = "refilling_finally_end"
    /\ EndFinally
    /\ UNCHANGED <<lastSwitches, lastRefState>>

\* _perform_refilling: the level read and the second try, the wait for
\* refill_to_level
refilling_level ==
    /\ pc = "refilling_level"
    /\ \/ /\ lastSwitches' = <<>>
          /\ Raise("LinkError")
       \/ \E sw \in Switches :
             /\ lastSwitches' = sw
             /\ LET r == electrolyte_level(sw)
                IN  IF ~r.ok THEN Raise("HardwareInconsistency")
                    ELSE /\ IF r.level < refill_to_level(el_21)
                            THEN /\ wel' = [expected_level |->
                                                refill_to_level(el_21),
                                            timeout |-> REFILLING_TIMEOUT,
                                            refilling |-> TRUE,
                                            elapsed |-> 0]
                                 /\ Call("wait_electrolyte_level",
                                         "refilling_finish")
                            ELSE /\ wel' = wel
                                 /\ Goto("refilling_finish")
                         /\ UNCHANGED <<exc, outcome, progv, wrs, cwp, crs,
                                        trace>>
    /\ UNCHANGED lastRefState

\* _perform_refilling: second try, except HighElectrolyteLevelException
refilling_except2 ==
    /\ pc = "refilling_except2"
    /\ Call("handle_very_high", "refilling_handled")
    /\ UNCHANGED <<exc, outcome, progv, framev, trace, lastSwitches,
                   lastRefState>>

\* _perform_refilling: the assertion of KOH_REFILLING_FINISH
refilling_finish ==
    /\ pc \in {"refilling_finish", "refilling_handled"}
    /\ crs' = "KOH_REFILLING_FINISH"
    /\ Call("check_refilling_state", "refilling_return")
    /\ UNCHANGED <<exc, outcome, progv, wel, wrs, cwp, trace, lastSwitches,
                   lastRefState>>

refilling_return ==
    /\ pc = "refilling_return"
    /\ Return
    /\ trace' = Logged(<<E("done", "refilling")>>)
    /\ UNCHANGED <<exc, outcome, progv, framev, lastSwitches, lastRefState>>

\* _finish_refilling: the assertion of SERVICE_REFILLING
finish_refilling ==
    /\ pc = "finish_refilling"
    /\ crs' = "SERVICE_REFILLING"
    /\ Call("check_refilling_state", "finish_wait")
    /\ trace' = Logged(<<E("phase", "finish_refilling")>>)
    /\ UNCHANGED <<exc, outcome, progv, wel, wrs, cwp, lastSwitches,
                   lastRefState>>

\* _finish_refilling: the wait for HIGH
finish_wait ==
    /\ pc = "finish_wait"
    /\ wel' = [expected_level |-> HIGH, timeout |-> REFILLING_TIMEOUT,
               refilling |-> TRUE, elapsed |-> 0]
    /\ Call("wait_electrolyte_level", "finish_mixing")
    /\ UNCHANGED <<exc, outcome, progv, wrs, cwp, crs, trace, lastSwitches,
                   lastRefState>>

\* _finish_refilling: the mixing time read and the wait for IDLE
finish_mixing ==
    /\ pc = "finish_mixing"
    /\ \/ Raise("LinkError")
       \/ \E words \in MixingTimeReads :
             /\ wrs' = [expected_state |-> "IDLE",
                        timeout |-> actual_refilling_mixing_time(words) * 2,
                        elapsed |-> 0,
                        mixing_time_ms |-> word_list_to_long(words)]
             /\ Call("wait_refilling_state", "finish_warnings")
             /\ UNCHANGED <<exc, outcome, progv, wel, cwp, crs, trace>>
    /\ UNCHANGED <<lastSwitches, lastRefState>>

\* _finish_refilling: the refilling-warnings check
finish_warnings ==
    /\ pc = "finish_warnings"
    /\ Call("check_refilling_warnings", "finish_idle")
    /\ UNCHANGED <<exc, outcome, progv, framev, trace, lastSwitches,
                   lastRefState>>

\* _finish_refilling: the assertion of IDLE
finish_idle ==
    /\ pc = "finish_idle"
    /\ crs' = "IDLE"
    /\ Call("check_refilling_state", "finish_return")
    /\ UNCHANGED <<exc, outcome, progv, wel, wrs, cwp, trace, lastSwitches,
                   lastRefState>>

finish_return ==
    /\ pc = "finish_return"
    /\ Return
    /\ trace' = Logged(<<E("done", "finish_refilling")>>)
    /\ UNCHANGED <<exc, outcome, progv, framev, lastSwitches, lastRefState>>

----------------------------------------------------------------------------
(* Phase sequences *)

\* _run_maintenance_21: _maintenance_on
run_maintenance_21 ==
    /\ pc = "run_maintenance_21"
    /\ Call("maintenance_on", "m21_dispatch")
    /\ UNCHANGED <<exc, outcome, progv, framev, trace, lastSwitches,
                   lastRefState>>

\* Mutant: DRAINING does not require the draining.
Dispatch21_no_draining(state) ==
    [matched |-> state \in {"DRAINING", "MAINTENANCE"},
     draining_required |-> FALSE]

\* Mutant: WAIT_FLUSHING is a case of the match statement too.
Dispatch21_wait_flushing(state) ==
    [matched |-> state \in {"DRAINING", "MAINTENANCE", "WAIT_FLUSHING"},
     draining_required |-> state = "DRAINING"]

\* The match statement of _run_maintenance_21 on the refilling state read:
\* whether the state is one of its cases, and draining_required.
Dispatch21(state) ==
    CASE state = "DRAINING" ->
            [matched |-> TRUE, draining_required |-> TRUE]
      [] state = "MAINTENANCE" ->
            [matched |-> TRUE, draining_required |-> FALSE]
      [] OTHER -> [matched |-> FALSE, draining_required |-> FALSE]

\* _run_maintenance_21: the dispatch on the refilling state and the draining
m21_dispatch ==
    /\ pc = "m21_dispatch"
    /\ \/ /\ lastRefState' = None
          /\ Raise("LinkError")
       \/ \E raw \in RefillingStateRaw :
             /\ lastRefState' = RefillingState(raw)
             /\ LET d == Dispatch21(RefillingState(raw))
                IN  IF ~d.matched THEN Raise("UnexpectedState")
                    ELSE /\ draining_required' = d.draining_required
                         /\ IF d.draining_required
                            THEN Call("perform_draining", "m21_refilling")
                            ELSE Goto("m21_refilling")
                         /\ trace' = Logged(
                                <<E("dispatch", RefillingState(raw))>>)
                         /\ UNCHANGED <<exc, outcome, answer, written, initial_state,
                                        device_model, el_21,
                                        flushing_required, framev>>
    /\ UNCHANGED lastSwitches

\* _run_maintenance_21: _perform_refilling(el_21=True)
m21_refilling ==
    /\ pc = "m21_refilling"
    /\ el_21' = TRUE
    /\ Call("perform_refilling", "m21_warnings")
    /\ UNCHANGED <<exc, outcome, answer, written, initial_state, device_model,
                   draining_required, flushing_required, framev, trace,
                   lastSwitches, lastRefState>>

\* _run_maintenance_21: _check_refilling_warnings
m21_warnings ==
    /\ pc = "m21_warnings"
    /\ Call("check_refilling_warnings", "m21_off")
    /\ UNCHANGED <<exc, outcome, progv, framev, trace, lastSwitches,
                   lastRefState>>

\* _run_maintenance_21: _maintenance_off
m21_off ==
    /\ pc = "m21_off"
    /\ Call("maintenance_off", "m21_idle")
    /\ UNCHANGED <<exc, outcome, progv, framev, trace, lastSwitches,
                   lastRefState>>

\* _run_maintenance_21: the assertion of IDLE; it is the last statement, so
\* the assertion returns to the caller.
m21_idle ==
    /\ pc = "m21_idle"
    /\ crs' = "IDLE"
    /\ Goto("check_refilling_state")
    /\ UNCHANGED <<exc, outcome, progv, wel, wrs, cwp, trace, lastSwitches,
                   lastRefState>>

\* _run_maintenance_4x: _maintenance_on
run_maintenance_4x ==
    /\ pc = "run_maintenance_4x"
    /\ Call("maintenance_on", "m4x_dispatch")
    /\ UNCHANGED <<exc, outcome, progv, framev, trace, lastSwitches,
                   lastRefState>>

\* Mutant: WAIT_FLUSHING requires the draining too.
Dispatch4x_wait_draining(state) ==
    CASE state \in {"DRAINING", "WAIT_FLUSHING"} ->
            [matched |-> TRUE, draining_required |-> TRUE,
             flushing_required |-> TRUE]
      [] state = "MAINTENANCE" ->
            [matched |-> TRUE, draining_required |-> FALSE,
             flushing_required |-> FALSE]
      [] OTHER ->
            [matched |-> FALSE, draining_required |-> FALSE,
             flushing_required |-> FALSE]

\* The match statement of _run_maintenance_4x on the refilling state read.
Dispatch4x(state) ==
    CASE state = "DRAINING" ->
            [matched |-> TRUE, draining_required |-> TRUE,
             flushing_required |-> TRUE]
      [] state = "WAIT_FLUSHING" ->
            [matched |-> TRUE, draining_required |-> FALSE,
             flushing_required |-> TRUE]
      [] state = "MAINTENANCE" ->
            [matched |-> TRUE, draining_required |-> FALSE,
             flushing_required |-> FALSE]
      [] OTHER ->
            [matched |-> FALSE, draining_required |-> FALSE,
             flushing_required |-> FALSE]

\* _run_maintenance_4x: the dispatch on the refilling state and the draining
m4x_dispatch ==
    /\ pc = "m4x_dispatch"
    /\ \/ /\ lastRefState' = None
          /\ Raise("LinkError")
       \/ \E raw \in RefillingStateRaw :
             /\ lastRefState' = RefillingState(raw)
             /\ LET d == Dispatch4x(RefillingState(raw))
                IN  IF ~d.matched THEN Raise("UnexpectedState")
                    ELSE /\ draining_required' = d.draining_required
                         /\ flushing_required' = d.flushing_required
                         /\ IF d.draining_required
                            THEN Call("perform_draining", "m4x_recheck")
                            ELSE Goto("m4x_recheck")
                         /\ trace' = Logged(
                                <<E("dispatch", RefillingState(raw))>>)
                         /\ UNCHANGED <<exc, outcome, answer, written, initial_state,
                                        device_model, el_21, framev>>
    /\ UNCHANGED lastSwitches

\* History: what the second refilling state read gave, as far as its
\* condition "is RefillingState.MAINTENANCE" tells states apart.
StateSeen(state) == IF state = "MAINTENANCE" THEN "MAINTENANCE" ELSE "other"

\* Mutant: the second read is ignored.
FlushingAsDispatched(required, state) == required

\* "flushing is already complete": the refilling state read after the
\* draining step decides whether flushing is still required.
FlushingStillRequired(required, state) ==
    IF state = "MAINTENANCE" THEN FALSE ELSE required

\* _run_maintenance_4x: the second refilling state read and the flushing
m4x_recheck ==
    /\ pc = "m4x_recheck"
    /\ \/ /\ lastRefState' = None
          /\ Raise("LinkError")
       \/ \E raw \in RefillingStateRaw :
             /\ lastRefState' = RefillingState(raw)
             /\ flushing_required' =
                    FlushingStillRequired(flushing_required,
                                          RefillingState(raw))
             /\ IF flushing_required'
                THEN Call("perform_flushing", "m4x_refilling")
                ELSE Goto("m4x_refilling")
             /\ trace' = Logged(<<E("recheck",
                                    StateSeen(RefillingState(raw)))>>)
             /\ UNCHANGED <<exc, outcome, answer, written, initial_state, device_model, el_21,
                            draining_required, framev>>
    /\ UNCHANGED lastSwitches

\* _run_maintenance_4x: _perform_refilling()
m4x_refilling ==
    /\ pc = "m4x_refilling"
    /\ el_21' = FALSE
    /\ Call("perform_refilling", "m4x_confirm")
    /\ UNCHANGED <<exc, outcome, answer, written, initial_state, device_model,
                   draining_required, flushing_required, framev, trace,
                   lastSwitches, lastRefState>>

\* _run_maintenance_4x: the operator checkpoint before maintenance-off
m4x_confirm ==
    /\ pc = "m4x_confirm"
    /\ Call("wait_confirmation", "m4x_off")
    /\ UNCHANGED <<exc, outcome, progv, framev, trace, lastSwitches,
                   lastRefState>>

\* _run_maintenance_4x: _maintenance_off
m4x_off ==
    /\ pc = "m4x_off"
    /\ Call("maintenance_off", "m4x_pipe")
    /\ UNCHANGED <<exc, outcome, progv, framev, trace, lastSwitches,
                   lastRefState>>

\* _run_maintenance_4x: try, the water-pipe check with one attempt
m4x_pipe ==
    /\ pc = "m4x_pipe"
    /\ cwp' = [NoCwp EXCEPT !.expect_no_electrolyte = FALSE, !.attempts = 1]
    /\ Call("check_water_pipe_connection", "m4x_finish")
    /\ UNCHANGED <<exc, outcome, progv, wel, wrs, crs, trace, lastSwitches,
                   lastRefState>>

\* _run_maintenance_4x: except WaterPipeException, then the return
m4x_pipe_except ==
    /\ pc = "m4x_pipe_except"
    /\ Return
    /\ UNCHANGED <<exc, outcome, progv, framev, trace, lastSwitches,
                   lastRefState>>

\* Mutant: the else clause does nothing.
m4x_finish_skipped ==
    /\ pc = "m4x_finish"
    /\ Return
    /\ UNCHANGED <<exc, outcome, progv, framev, trace, lastSwitches,
                   lastRefState>>

\* _run_maintenance_4x: else, _finish_refilling; it is the last statement,
\* so _finish_refilling returns to the caller.
m4x_finish ==
    /\ pc = "m4x_finish"
    /\ Goto("finish_refilling")
    /\ UNCHANGED <<exc, outcome, progv, framev, trace, lastSwitches,
                   lastRefState>>

----------------------------------------------------------------------------
(* Maintenance Session *)

\* main: the opening warning
main_prompt ==
    /\ pc = "main_prompt"
    /\ \E text \in OperatorInputs :
          IF Upper(text) # INPUT_CONFIRMATION
          THEN pc' = "done" /\ outcome' = "clean_exit"
          ELSE pc' = "main_level" /\ outcome' = outcome
    /\ UNCHANGED <<stack, exc, progv, framev, trace, lastSwitches,
                   lastRefState>>

\* Mutant: the level gate is missing.
GateLevelOK_off(level) == TRUE

\* The pre-flight gate on the level.
GateLevelOK(level) == level # VERY_HIGH

\* The pre-flight gate on the operating state.
\* Mutant: a state the script does not know passes the gate.
GateStateOK_unknown(state) == state \in {"IDLE", "MAINTENANCE_MODE", "UNKNOWN"}

GateStateOK(state) == state \in {"IDLE", "MAINTENANCE_MODE"}

\* main: the level read of the pre-flight gate
main_level ==
    /\ pc = "main_level"
    /\ \/ /\ lastSwitches' = <<>>
          /\ Raise("LinkError")
       \/ \E sw \in Switches :
             /\ lastSwitches' = sw
             /\ LET r == electrolyte_level(sw)
                IN  IF ~r.ok THEN Raise("HardwareInconsistency")
                    ELSE /\ IF GateLevelOK(r.level)
                            THEN pc' = "main_state" /\ outcome' = outcome
                            ELSE pc' = "done" /\ outcome' = "clean_exit"
                         /\ UNCHANGED <<stack, exc, progv, framev, trace>>
    /\ UNCHANGED lastRefState

\* main: the state read of the pre-flight gate
main_state ==
    /\ pc = "main_state"
    /\ \/ Raise("LinkError") /\ UNCHANGED <<lastSwitches, lastRefState>>
       \/ \E raw \in StateRaw :
             /\ initial_state' = State(raw)
             /\ IF GateStateOK(State(raw))
                THEN pc' = "run_maintenance" /\ outcome' = outcome
                ELSE pc' = "done" /\ outcome' = "clean_exit"
             /\ UNCHANGED <<stack, exc, answer, written, device_model, el_21,
                            draining_required, flushing_required, framev,
                            trace, lastSwitches, lastRefState>>

\* Mutant: a name of no family gets the EL4.x sequence.
run_maintenance_default_4x ==
    /\ pc = "run_maintenance"
    /\ \/ Raise("LinkError")
       \/ \E words \in DeviceModelReads :
             LET decoded == DeviceModel(word_list_to_long(words))
             IN  IF NameConversionFails(word_list_to_long(words))
                 THEN Raise("ValueError")
                 ELSE /\ device_model' = decoded
                      /\ Call(IF decoded = "EL21" THEN "run_maintenance_21"
                              ELSE "run_maintenance_4x", "completed")
                      /\ UNCHANGED <<exc, outcome, answer, written,
                                     initial_state, el_21, draining_required,
                                     flushing_required, framev, trace>>
    /\ UNCHANGED <<lastSwitches, lastRefState>>

\* _run_maintenance: the device model read and the match on it
run_maintenance ==
    /\ pc = "run_maintenance"
    /\ \/ Raise("LinkError")
       \/ \E words \in DeviceModelReads :
             LET decoded == DeviceModel(word_list_to_long(words))
             IN  IF NameConversionFails(word_list_to_long(words))
                 THEN Raise("ValueError")
                 ELSE IF decoded = "EL21"
                 THEN /\ device_model' = decoded
                      /\ Call("run_maintenance_21", "completed")
                      /\ UNCHANGED <<exc, outcome, answer, written, initial_state, el_21,
                                     draining_required, flushing_required,
                                     framev, trace>>
                 ELSE IF decoded \in {"EL40", "ES40", "ES41"}
                 THEN /\ device_model' = decoded
                      /\ Call("run_maintenance_4x", "completed")
                      /\ UNCHANGED <<exc, outcome, answer, written, initial_state, el_21,
                                     draining_required, flushing_required,
                                     framev, trace>>
                 ELSE Raise("UnknownModel")
    /\ UNCHANGED <<lastSwitches, lastRefState>>

\* _run_maintenance: 'Maintenance mode completed OK', and main returns
completed ==
    /\ pc = "completed"
    /\ pc' = "done"
    /\ outcome' = "success"
    /\ UNCHANGED <<stack, exc, progv, framev, trace, lastSwitches,
                   lastRefState>>

\* main, except Exception: the errors register, the warnings register, then
\* raise.  A failed read raises inside the handler, and that exception is
\* the one that leaves main.  The words read are printed and decide nothing:
\* any words of the register do.
main_except ==
    /\ pc = "main_except"
    /\ \/ /\ exc' = "LinkError"
          /\ trace' = Append(trace, E("raise", "LinkError"))
       \/ /\ EventsRegister(ErrorCodes) # {}
          /\ exc' = "LinkError"
          /\ trace' = trace \o <<E("diagnostics", "errors"),
                                 E("raise", "LinkError")>>
       \/ /\ EventsRegister(ErrorCodes) # {}
          /\ EventsRegister(WarningCodes) # {}
          /\ exc' = exc
          /\ trace' = trace \o <<E("diagnostics", "errors"),
                                 E("diagnostics", "warnings")>>
    /\ pc' = "done"
    /\ outcome' = "failure"
    /\ UNCHANGED <<stack, progv, framev, lastSwitches, lastRefState>>

----------------------------------------------------------------------------
(* The specification *)

Init ==
    /\ pc = "main_prompt"
    /\ stack = <<>>
    /\ exc = None
    /\ outcome = "running"
    /\ answer = ""
    /\ written = TRUE
    /\ initial_state = None
    /\ device_model = None
    /\ el_21 = FALSE
    /\ draining_required = FALSE
    /\ flushing_required = FALSE
    /\ wel = NoWel
    /\ wrs = NoWrs
    /\ cwp = NoCwp
    /\ crs = None
    /\ trace = <<>>
    /\ lastSwitches = <<>>
    /\ lastRefState = None

Next ==
    \/ main_prompt \/ main_level \/ main_state \/ run_maintenance
    \/ completed \/ main_except
    \/ run_maintenance_21 \/ m21_dispatch \/ m21_refilling \/ m21_warnings
    \/ m21_off \/ m21_idle
    \/ run_maintenance_4x \/ m4x_dispatch \/ m4x_recheck \/ m4x_refilling
    \/ m4x_confirm \/ m4x_off \/ m4x_pipe \/ m4x_pipe_except \/ m4x_finish
    \/ write_settle
    \/ maintenance_on \/ maintenance_on_state
    \/ maintenance_off \/ maintenance_off_state
    \/ check_refilling_state \/ check_refilling_warnings
    \/ wait_confirmation \/ wait_input \/ wait_compare
    \/ wait_electrolyte_level \/ wait_refilling_state
    \/ check_water_pipe_connection \/ pipe_loop \/ pipe_electrolyte
    \/ pipe_drained \/ pipe_decide \/ pipe_retry
    \/ handle_very_high \/ handle_very_high_wait
    \/ perform_draining \/ draining_confirm \/ draining_wait
    \/ draining_return
    \/ perform_flushing \/ flushing_confirm \/ flushing_pipe
    \/ flushing_confirm2 \/ flushing_on \/ flushing_wait
    \/ flushing_warnings
    \/ flushing_mixing \/ flushing_draining \/ flushing_return
    \/ perform_refilling \/ refilling_confirm \/ refilling_try
    \/ refilling_except1 \/ refilling_else \/ refilling_finally
    \/ refilling_finally_end \/ refilling_level \/ refilling_except2
    \/ refilling_finish \/ refilling_return
    \/ finish_refilling \/ finish_wait \/ finish_mixing \/ finish_warnings
    \/ finish_idle \/ finish_return

Spec == Init /\ [][Next]_vars

----------------------------------------------------------------------------
(* _wait_electrolyte_level on its own, for every target, budget and flag *)

\* Budgets in seconds: none, less than one sleep, between one and two
\* sleeps, between two and three.
WaitBudgets == {0, 1, 15, 25}

WaitInit ==
    /\ pc = "wait_electrolyte_level"
    /\ stack = <<"waited">>
    /\ exc = None
    /\ outcome = "running"
    /\ answer = ""
    /\ written = TRUE
    /\ initial_state = None
    /\ device_model = None
    /\ el_21 = FALSE
    /\ draining_required = FALSE
    /\ flushing_required = FALSE
    /\ wel \in [expected_level : ElectrolyteLevel, timeout : WaitBudgets,
                 refilling : BOOLEAN, elapsed : {0}]
    /\ wrs = NoWrs
    /\ cwp = NoCwp
    /\ crs = None
    /\ trace = <<>>
    /\ lastSwitches = <<>>
    /\ lastRefState = None

WaitNext == wait_electrolyte_level

\* The script is one thread; a read returns (with registers or, after the
\* client's timeout, with None) and a sleep ends, so the loop goes on.
WaitSpec == WaitInit /\ [][WaitNext]_vars /\ WF_vars(WaitNext)

----------------------------------------------------------------------------
(* The session when every call returns and the operator confirms *)

\* _wait_confirmation: the operator types the token, in any case of letters.
confirmed_input ==
    /\ wait_input
    /\ Upper(answer') = INPUT_CONFIRMATION

\* The script is one thread: a read or a write returns (a read after the
\* client's timeout at the latest) and a sleep ends, so the script takes its
\* next step; at a checkpoint the operator types the token in the end.
LiveSpec ==
    Init /\ [][Next]_vars /\ WF_vars(Next) /\ SF_vars(confirmed_input)

----------------------------------------------------------------------------
(* The decoding of an events register alone *)

EventTypes == {"ElWarning", "ElError"}

\* The registers of an event type.
EventsRegisterOf(event_type) ==
    IF event_type = "ElWarning" THEN EventsRegister(WarningCodes)
    ELSE EventsRegister(ErrorCodes)

DecodeInit ==
    /\ pc = "decode_read"
    /\ stack = <<>>
    /\ exc = None
    /\ outcome = "running"
    /\ answer = ""
    /\ written = TRUE
    /\ initial_state = None
    /\ device_model = None
    /\ el_21 = FALSE
    /\ draining_required = FALSE
    /\ flushing_required = FALSE
    /\ wel = NoWel
    /\ wrs = NoWrs
    /\ cwp = NoCwp
    /\ crs = None
    /\ trace = <<>>
    /\ lastSwitches = <<>>
    /\ lastRefState = None

\* _decode_events: modbus_client.read_input_registers(reg_nb=33), the read
\* having succeeded
decode_read ==
    /\ pc = "decode_read"
    /\ \E event_type \in EventTypes :
          \E raw_events_data \in EventsRegisterOf(event_type) :
             trace' = <<E("read", <<event_type, raw_events_data>>)>>
    /\ pc' = "decode_return"
    /\ UNCHANGED <<stack, exc, outcome, progv, framev, lastSwitches,
                   lastRefState>>

\* _decode_events: the list built from the words read, and return events
decode_return ==
    /\ pc = "decode_return"
    /\ LET event_type == trace[1][2][1]
           raw_events_data == trace[1][2][2]
       IN  trace' = Append(trace,
                       E("events", decode_events(raw_events_data, event_type)))
    /\ pc' = "decoded"
    /\ UNCHANGED <<stack, exc, outcome, progv, framev, lastSwitches,
                   lastRefState>>

DecodeNext == decode_read \/ decode_return

DecodeSpec == DecodeInit /\ [][DecodeNext]_vars

----------------------------------------------------------------------------
(* The refilling-warnings check alone *)

\* The check is about to run on a warnings register; the words the read
\* will return are the first entry of the history.
WarnInit ==
    /\ pc = "check_refilling_warnings"
    /\ stack = <<"warned">>
    /\ exc = None
    /\ outcome = "running"
    /\ answer = ""
    /\ written = TRUE
    /\ initial_state = None
    /\ device_model = None
    /\ el_21 = FALSE
    /\ draining_required = FALSE
    /\ flushing_required = FALSE
    /\ wel = NoWel
    /\ wrs = NoWrs
    /\ cwp = NoCwp
    /\ crs = None
    /\ \E raw \in EventsRegister(WarningCodes) :
          trace = <<E("read", <<"ElWarning", raw>>)>>
    /\ lastSwitches = <<>>
    /\ lastRefState = None

\* _check_refilling_warnings, the read having succeeded
WarnNext ==
    /\ pc = "check_refilling_warnings"
    /\ check_refilling_warnings_on(trace[1][2][2])
    /\ UNCHANGED <<lastSwitches, lastRefState>>

WarnSpec == WarnInit /\ [][WarnNext]_vars

----------------------------------------------------------------------------
(* What the history says *)

HasEvent(kind, arg) ==
    \E i \in 1..Len(trace) : trace[i][1] = kind /\ trace[i][2] = arg

HasKind(kind) == \E i \in 1..Len(trace) : trace[i][1] = kind

\* The kinds of fault raised so far, and those caught by an except clause
\* of a phase.
Raised == {trace[i][2] : i \in {j \in 1..Len(trace) : trace[j][1] = "raise"}}
Caught == {trace[i][2] : i \in {j \in 1..Len(trace) : trace[j][1] = "catch"}}

\* The faults raised that no except clause of a phase caught: the catch is
\* logged right after the raise.
Uncaught ==
    {trace[i][2] : i \in {j \in 1..Len(trace) :
        /\ trace[j][1] = "raise"
        /\ ~(j < Len(trace) /\ trace[j + 1][1] = "catch")}}

LevelWasRead == Len(lastSwitches) = 4

EnabledSwitches(sw) == {i \in 1..4 : sw[i]}

\* The enabled switches form a run from the lowest switch up.
BottomRun(sw) == \A i \in EnabledSwitches(sw) : \A j \in 1..(i - 1) : sw[j]

\* Some switch is enabled while a switch below it is disabled.
HasGap(sw) == \E i \in EnabledSwitches(sw) : \E j \in 1..(i - 1) : ~sw[j]

HighestEnabled(sw) ==
    IF EnabledSwitches(sw) = {} THEN 0
    ELSE CHOOSE i \in EnabledSwitches(sw) :
            \A j \in EnabledSwitches(sw) : j <= i

DisabledBelow(sw) == {j \in 1..(HighestEnabled(sw) - 1) : ~sw[j]}

LowestDisabledBelow(sw) ==
    CHOOSE j \in DisabledBelow(sw) : \A k \in DisabledBelow(sw) : j <= k

HighestDisabledBelow(sw) ==
    CHOOSE j \in DisabledBelow(sw) : \A k \in DisabledBelow(sw) : k <= j

FamilyEL4x == {"EL40", "ES40", "ES41"}

----------------------------------------------------------------------------
(* Claims *)

\* The pre-flight gate has tripped: the first level read gave VERY_HIGH (no
\* state has been read yet), or the state read is neither IDLE nor
\* MAINTENANCE_MODE.
GateTripped ==
    \/ /\ initial_state = None
       /\ LevelWasRead
       /\ electrolyte_level(lastSwitches).ok
       /\ electrolyte_level(lastSwitches).level = VERY_HIGH
    \/ initial_state \notin {None, "IDLE", "MAINTENANCE_MODE"}

\* C1: when the pre-flight gate trips (level VERY_HIGH at the first read, or
\* a state other than IDLE and MAINTENANCE_MODE), the run is over as a clean
\* exit: no fault was raised, no diagnostics were read, and no register was
\* written.
C1_PreflightGate ==
    GateTripped =>
        /\ pc = "done"
        /\ outcome = "clean_exit"
        /\ exc = None
        /\ Raised = {}
        /\ ~HasKind("diagnostics")
        /\ ~HasKind("write")

C1_Witness ==
    /\ pc = "done"
    /\ initial_state = None
    /\ lastSwitches = <<TRUE, TRUE, TRUE, TRUE>>
    /\ outcome = "clean_exit"

\* C2: whenever the switches read form a run from the lowest switch up
\* (none enabled included), _electrolyte_level returns a level, and it is
\* the ordinal of the highest enabled switch.
C2_ContiguousLevel ==
    (LevelWasRead /\ BottomRun(lastSwitches)) =>
        /\ electrolyte_level(lastSwitches).ok
        /\ electrolyte_level(lastSwitches).level = HighestEnabled(lastSwitches)

C2_Witness ==
    /\ lastSwitches = <<TRUE, TRUE, FALSE, FALSE>>
    /\ pc = "main_state"

\* C3: whenever the switches read have a gap (11 of the 16 combinations),
\* _electrolyte_level returns no level but raises; no phase catches that
\* fault, and the run ends in failure.
C3_GapIsFatal ==
    /\ Cardinality({sw \in Switches : HasGap(sw)}) = 11
    /\ (LevelWasRead /\ HasGap(lastSwitches)) =>
          /\ ~electrolyte_level(lastSwitches).ok
          /\ "HardwareInconsistency" \in Raised
          /\ exc # None
          /\ outcome \in {"running", "failure"}
    /\ "HardwareInconsistency" \in Raised =>
          /\ "HardwareInconsistency" \notin Caught
          /\ exc # None
          /\ pc = "done" => outcome = "failure"

C3_Witness ==
    /\ pc = "done"
    /\ outcome = "failure"
    /\ lastSwitches = <<TRUE, FALSE, TRUE, FALSE>>
    /\ HasKind("phase")

\* C4 as claimed: the fault names the detected level and the lowest
\* disabled switch below it.
C4_NamesLowestDisabled ==
    (LevelWasRead /\ HasGap(lastSwitches)) =>
        /\ electrolyte_level(lastSwitches).level = HighestEnabled(lastSwitches)
        /\ electrolyte_level(lastSwitches).top_disabled_level =
               LowestDisabledBelow(lastSwitches)

\* C4, amended: the fault names the detected level (the highest enabled
\* switch) and the highest disabled switch below it.
C4_NamesHighestDisabled ==
    (LevelWasRead /\ HasGap(lastSwitches)) =>
        /\ ~electrolyte_level(lastSwitches).ok
        /\ electrolyte_level(lastSwitches).level = HighestEnabled(lastSwitches)
        /\ electrolyte_level(lastSwitches).top_disabled_level =
               HighestDisabledBelow(lastSwitches)

C4_Witness ==
    /\ lastSwitches = <<FALSE, FALSE, TRUE, FALSE>>
    /\ "HardwareInconsistency" \in Raised
    /\ exc = "HardwareInconsistency"

\* s is an initial part of t.
IsPrefix(s, t) == Len(s) <= Len(t) /\ s = SubSeq(t, 1, Len(s))

\* An uncaught fault has ended the run, or is about to.
Failing ==
    /\ exc # None
    /\ outcome \in {"running", "failure"}
    /\ pc = "done" => outcome = "failure"

\* The steps of the EL2.1 sequence in the history.
Milestone21(e) ==
    \/ e[1] \in {"write", "state", "dispatch", "phase", "done", "warnings"}
    \/ e[1] = "assert" /\ e[2] \in {"KOH_REFILLING_FINISH", "IDLE"}

Milestones21 == SelectSeq(trace, Milestone21)

Expected21(initial, dispatched) ==
    (IF initial = "IDLE"
     THEN <<E("write", <<MAINTENANCE_REG, 1>>),
            E("state", "MAINTENANCE_MODE")>>
     ELSE <<>>)
    \o <<E("dispatch", dispatched)>>
    \o (IF dispatched = "DRAINING"
        THEN <<E("phase", "draining"), E("done", "draining")>>
        ELSE <<>>)
    \o <<E("phase", "refilling"),
         E("assert", "KOH_REFILLING_FINISH"),
         E("done", "refilling"),
         E("warnings", "checked"),
         E("write", <<MAINTENANCE_REG, 0>>),
         E("state", "IDLE"),
         E("assert", "IDLE")>>

\* C5: in an EL2.1 run the steps maintenance-on (written only from IDLE),
\* dispatch on DRAINING or MAINTENANCE, draining (only on DRAINING),
\* refilling to HIGH, assertion of KOH_REFILLING_FINISH, warnings check,
\* maintenance-off write, operating state IDLE, assertion of refilling state
\* IDLE occur in this order and none is skipped or repeated; a successful
\* run has done all of them.
C5_OrderEL21 ==
    device_model = "EL21" =>
        /\ \E d \in {"DRAINING", "MAINTENANCE"} :
              /\ IsPrefix(Milestones21, Expected21(initial_state, d))
              /\ outcome = "success" =>
                    Milestones21 = Expected21(initial_state, d)
        /\ refill_to_level(TRUE) = HIGH
        /\ (pc = "wait_electrolyte_level" /\ Head(stack) = "refilling_finish")
              => (wel.expected_level = HIGH /\ wel.refilling)

C5_Witness ==
    /\ device_model = "EL21"
    /\ outcome = "success"
    /\ initial_state = "IDLE"
    /\ HasEvent("done", "draining")
    /\ HasEvent("level", HIGH)

\* C6: in an EL2.1 run the draining phase is entered right after the
\* dispatch exactly when the refilling state read is DRAINING; on
\* MAINTENANCE the refilling phase is entered right after it; on every
\* other state the run fails with UnexpectedState, and no phase has begun
\* nor shown a checkpoint.
C6_DispatchEL21 ==
    device_model = "EL21" =>
        /\ \A i \in 1..Len(trace) :
              /\ trace[i][1] = "dispatch" =>
                    /\ trace[i][2] \in {"DRAINING", "MAINTENANCE"}
                    /\ i < Len(trace) =>
                          trace[i + 1] =
                             (IF trace[i][2] = "DRAINING"
                              THEN E("phase", "draining")
                              ELSE E("phase", "refilling"))
              /\ trace[i] = E("phase", "draining") =>
                    (i > 1 /\ trace[i - 1] = E("dispatch", "DRAINING"))
        /\ (lastRefState # None /\ ~HasKind("dispatch")) =>
              /\ lastRefState \notin {"DRAINING", "MAINTENANCE"}
              /\ "UnexpectedState" \in Raised
              /\ ~HasKind("checkpoint")
              /\ ~HasKind("phase")
              /\ Failing

C6_Witness ==
    /\ device_model = "EL21"
    /\ lastRefState = "WAIT_FLUSHING"
    /\ ~HasKind("dispatch")
    /\ pc = "done"
    /\ outcome = "failure"

\* The beginnings and ends of the draining, flushing and refilling phases
\* in the history.
PhaseMark(e) ==
    e[1] \in {"phase", "done"} /\ e[2] \in {"draining", "flushing", "refilling"}

PhaseMarks == SelectSeq(trace, PhaseMark)

PhasesWithFlushing ==
    <<E("phase", "draining"), E("done", "draining"),
      E("phase", "flushing"),
      E("phase", "draining"), E("done", "draining"),
      E("done", "flushing"),
      E("phase", "refilling"), E("done", "refilling")>>

PhasesWithoutFlushing ==
    <<E("phase", "draining"), E("done", "draining"),
      E("phase", "refilling"), E("done", "refilling")>>

DrainingDispatched4x ==
    device_model \in FamilyEL4x /\ HasEvent("dispatch", "DRAINING")

\* C7 as claimed: every successful EL4.x run dispatched on DRAINING has
\* done draining, flushing (with its own draining) and refilling.
C7_AlwaysFlushes ==
    (DrainingDispatched4x /\ outcome = "success") =>
        PhaseMarks = PhasesWithFlushing

\* C7, amended: in an EL4.x run dispatched on DRAINING the phases are
\* draining, flushing (ending with a second draining) and refilling, in
\* that order and each after the end of the one before, unless the
\* refilling state read again after the draining is MAINTENANCE: then the
\* flushing is skipped and the refilling follows the draining.  (The
\* draining that the water-pipe check of the flushing may do is inside the
\* flushing and not part of the history.)
C7_FlushesUnlessComplete ==
    DrainingDispatched4x =>
        LET expected == IF HasEvent("recheck", "MAINTENANCE")
                        THEN PhasesWithoutFlushing
                        ELSE PhasesWithFlushing
        IN  /\ IsPrefix(PhaseMarks, expected)
            /\ outcome = "success" => PhaseMarks = expected
            /\ HasKind("recheck") => HasEvent("done", "draining")

C7_Witness ==
    /\ DrainingDispatched4x
    /\ outcome = "success"
    /\ HasEvent("recheck", "other")
    /\ HasEvent("done", "flushing")

\* The history after the maintenance-off write.
AfterOff ==
    LET k == CHOOSE i \in 1..Len(trace) :
                 trace[i] = E("write", <<MAINTENANCE_REG, 0>>)
    IN  SubSeq(trace, k + 1, Len(trace))

FinishedTail ==
    <<E("sleep", REGISTER_WRITE_TIMEOUT),
      E("state", "IDLE"),
      E("pipe", "ok"),
      E("phase", "finish_refilling"),
      E("assert", "SERVICE_REFILLING"),
      E("level", HIGH),
      E("refilling_state", "IDLE"),
      E("warnings", "checked"),
      E("assert", "IDLE"),
      E("done", "finish_refilling")>>

SkippedTail ==
    <<E("sleep", REGISTER_WRITE_TIMEOUT),
      E("state", "IDLE"),
      E("raise", "WaterPipeFault"),
      E("catch", "WaterPipeFault")>>

Success4x == device_model \in FamilyEL4x /\ outcome = "success"

C10_OvershootByModel ==
    \A i \in 1..Len(trace) : \A j \in 1..Len(trace) :
        (/\ trace[i] = E("catch", "LevelOvershoot")
         /\ trace[j] = E("assert", "KOH_REFILLING_FINISH")) =>
            /\ device_model = "EL21"
            /\ HasEvent("checkpoint", "handle_very_high_wait")

\* C10, amended: after an overshoot was caught the level is read again;
\* only when it reads VERY_HIGH does an EL2.1 run go to the manual
\* checkpoint (confirmation, then the wait for HIGH) and a run of another
\* model fail; on any other level the run of either model goes on with the
\* refilling.
C10_OvershootByLevel ==
    \A i \in 1..Len(trace) :
        /\ (trace[i] = E("catch", "LevelOvershoot") /\ i < Len(trace)) =>
              trace[i + 1][1] \in {"reread", "raise"}
        /\ trace[i][1] = "reread" =>
              (i > 1 /\ trace[i - 1] = E("catch", "LevelOvershoot"))
        /\ (trace[i] = E("reread", "VERY_HIGH") /\ i < Len(trace)) =>
              trace[i + 1] =
                 (IF device_model = "EL21"
                  THEN E("checkpoint", "handle_very_high_wait")
                  ELSE E("raise", "VeryHighLevel"))
        /\ (trace[i] = E("reread", "other") /\ i < Len(trace)) =>
              /\ trace[i + 1] # E("checkpoint", "handle_very_high_wait")
              /\ trace[i + 1] # E("raise", "VeryHighLevel")
        /\ trace[i] = E("checkpoint", "handle_very_high_wait") =>
              /\ device_model = "EL21"
              /\ i > 1 /\ trace[i - 1] = E("reread", "VERY_HIGH")
              /\ i < Len(trace) =>
                    trace[i + 1] \in {E("level", HIGH), E("raise", "LinkError"),
                                      E("raise", "HardwareInconsistency"),
                                      E("raise", "PhaseTimeout")}
        /\ trace[i] = E("raise", "VeryHighLevel") =>
              /\ device_model \in FamilyEL4x
              /\ i > 1 /\ trace[i - 1] = E("reread", "VERY_HIGH")
              /\ Failing

C10_Witness ==
    /\ device_model = "EL21"
    /\ HasEvent("checkpoint", "handle_very_high_wait")
    /\ HasEvent("assert", "KOH_REFILLING_FINISH")
    /\ outcome = "success"

\* The fault of the last raise in the history; every raise is recorded.
LastRaised ==
    LET at == {i \in 1..Len(trace) : trace[i][1] = "raise"}
    IN  trace[CHOOSE i \in at : \A j \in at : j <= i][2]

\* C11 as claimed: a run that ends in failure has read the errors array and
\* then the warnings array as its last two steps, and the fault that leaves
\* main is the one that entered its except clause, raised before those
\* reads.
C11_DiagnosticsThenOriginalFault ==
    (pc = "done" /\ outcome = "failure") =>
        /\ Len(trace) >= 3
        /\ trace[Len(trace) - 1] = E("diagnostics", "errors")
        /\ trace[Len(trace)] = E("diagnostics", "warnings")
        /\ exc = LastRaised

Waiting == pc = "wait_electrolyte_level"

\* C12 as claimed: a wait in which no poll observes the target level, every
\* poll reading a valid level, ends with PhaseTimeout.
C12_TimeoutUnlessTarget ==
    <>(\/ HasEvent("level", HIGH) \/ HasEvent("level", VERY_HIGH)
       \/ HasEvent("level", MEDIUM) \/ HasEvent("level", LOW)
       \/ HasEvent("level", EMPTY)
       \/ exc \in {"PhaseTimeout", "LinkError", "HardwareInconsistency"})

\* C12, amended: for every target level, budget and flag the wait ends
\* after finitely many polls: every poll that does not end it moves the
\* clock on, never past the deadline; and when every poll reads a valid
\* level that is not the target and, with the refilling flag set, not above
\* the target, the wait ends with PhaseTimeout, raised without a further
\* poll once the deadline has passed.
C12_WaitEnds ==
    /\ <>(~Waiting)
    /\ [][Waiting =>
            /\ Waiting' =>
                  /\ wel.elapsed < wel'.elapsed
                  /\ wel'.elapsed <= wel.timeout
            /\ (/\ ~Waiting'
                /\ ~HasKind("level")'
                /\ exc' \notin {"LinkError", "HardwareInconsistency",
                                "LevelOvershoot"}) =>
                  /\ exc' = "PhaseTimeout"
                  /\ wel.elapsed >= wel.timeout
                  /\ lastSwitches' = lastSwitches
            /\ exc' = "LevelOvershoot" =>
                  /\ wel.refilling
                  /\ electrolyte_level(lastSwitches').level >
                         wel.expected_level]_vars

C12_Witness ==
    /\ exc = "PhaseTimeout"
    /\ lastSwitches = <<TRUE, TRUE, FALSE, FALSE>>
    /\ ~HasKind("level")

\* This step raises LevelOvershoot.
OvershootRaised ==
    /\ Len(trace') > Len(trace)
    /\ trace'[Len(trace) + 1] = E("raise", "LevelOvershoot")

\* C13: a poll of the wait that reads a level above the target ends the
\* wait with LevelOvershoot at once when the refilling flag is set, and
\* LevelOvershoot is raised by nothing else; when the flag is not set the
\* poll raises nothing and the wait goes on, the clock moved on, to the
\* next poll or to the deadline.
C13_OvershootAtOnce ==
    [][Waiting =>
          /\ (/\ wel.elapsed < wel.timeout
              /\ LevelWasRead'
              /\ electrolyte_level(lastSwitches').ok
              /\ electrolyte_level(lastSwitches').level > wel.expected_level)
                => IF wel.refilling
                   THEN /\ OvershootRaised
                        /\ ~Waiting'
                        /\ wel' = NoWel
                   ELSE /\ Waiting'
                        /\ exc' = exc
                        /\ trace' = trace
                        /\ wel'.elapsed > wel.elapsed
                        /\ wel'.elapsed <= wel.timeout
          /\ OvershootRaised =>
                /\ wel.refilling
                /\ wel.elapsed < wel.timeout
                /\ LevelWasRead'
                /\ electrolyte_level(lastSwitches').ok
                /\ electrolyte_level(lastSwitches').level
                       > wel.expected_level]_vars

C13_Witness ==
    /\ exc = "LevelOvershoot"
    /\ lastSwitches = <<TRUE, TRUE, FALSE, FALSE>>
    /\ trace = <<E("raise", "LevelOvershoot")>>

\* This step is the pressure check of an attempt of the water-pipe check.
PressureChecked ==
    /\ pc = "pipe_loop"
    /\ pc' \in {"pipe_electrolyte", "pipe_decide"}

\* This step is the successful return of the water-pipe check.
PipeCheckPassed ==
    /\ pc = "pipe_decide"
    /\ trace' = Append(trace, E("pipe", "ok"))

\* C14 as claimed: the pressure read in an attempt is accepted exactly when
\* min <= p < max.
C14_BoundsFromMin ==
    [][PressureChecked =>
          LET p == cwp'.actual_water_inlet_pressure
          IN  (~cwp.pressure_ok) =>
                 (cwp'.pressure_ok <=>
                     (cwp.min_pressure <= p /\ p < cwp.max_pressure))]_vars

\* C14, amended: the pressure read in an attempt is accepted exactly when
\* min < p < max, min and max being the bounds read before the first
\* attempt: p = min and p = max are both rejected.
C14_BoundsOpen ==
    [][PressureChecked =>
          LET p == cwp'.actual_water_inlet_pressure
          IN  /\ cwp'.min_pressure = cwp.min_pressure
              /\ cwp'.max_pressure = cwp.max_pressure
              /\ (~cwp.pressure_ok) =>
                    (cwp'.pressure_ok <=>
                        (cwp.min_pressure < p /\ p < cwp.max_pressure))]_vars

C14_Witness ==
    /\ pc = "pipe_decide"
    /\ cwp.min_pressure = 0
    /\ cwp.max_pressure = 2
    /\ cwp.actual_water_inlet_pressure = 0
    /\ ~cwp.pressure_ok

\* C15 as claimed: the water-pipe check returns only from an attempt whose
\* own pressure reading is within the bounds and, when no electrolyte is
\* expected, whose latest level reading is EMPTY.
C15_PassOnOwnReadings ==
    [][PipeCheckPassed =>
          /\ cwp.min_pressure < cwp.actual_water_inlet_pressure
          /\ cwp.actual_water_inlet_pressure < cwp.max_pressure
          /\ cwp.expect_no_electrolyte =>
                /\ LevelWasRead
                /\ electrolyte_level(lastSwitches).ok
                /\ electrolyte_level(lastSwitches).level = EMPTY]_vars

\* This step raises WaterPipeFault.
PipeFaultRaised ==
    /\ Len(trace') > Len(trace)
    /\ trace'[Len(trace) + 1] = E("raise", "WaterPipeFault")

\* C16 as claimed: the water-pipe check makes at most N attempts, a failed
\* attempt is followed by one confirmed prompt and then by a re-check, and
\* WaterPipeFault is raised exactly when N attempts have failed.
C16_PromptThenRecheck ==
    [][/\ PressureChecked =>
             cwp.water_pipe_connect_attempts < cwp.attempts
       /\ (pc = "pipe_decide" /\ ~PipeCheckPassed) =>
             /\ pc' = "wait_confirmation"
             /\ Head(stack') = "pipe_retry"
       /\ pc = "pipe_retry" =>
             /\ pc' = "pipe_loop"
             /\ cwp'.water_pipe_connect_attempts =
                   cwp.water_pipe_connect_attempts + 1
       /\ (pc = "pipe_loop" /\ cwp.water_pipe_connect_attempts > 0) =>
             ~PipeFaultRaised
       /\ PipeFaultRaised =>
             cwp.water_pipe_connect_attempts = cwp.attempts]_vars

\* Everything but the position of the script and the operator's answer:
\* the registers read and written are among it (the history).
BesidesCheckpoint ==
    <<stack, exc, outcome, written, initial_state, device_model, el_21,
      draining_required, flushing_required, wel, wrs, cwp, crs, trace,
      lastSwitches, lastRefState>>

\* C17 as claimed: a checkpoint is passed only on the answer YES as typed.
C17_LiteralToken ==
    [][(pc = "wait_compare" /\ pc' # "wait_input") => answer = "YES"]_vars

\* C17, amended: a checkpoint is passed exactly when the answer, put in
\* upper case, is YES (so on "yes" too); on every other answer the script
\* is back at the same input() of the same checkpoint, any number of times,
\* and between the prompt and the passing nothing is read or written.
C17_TokenInAnyCase ==
    [][/\ pc = "wait_input" =>
             /\ pc' = "wait_compare"
             /\ UNCHANGED BesidesCheckpoint
       /\ pc = "wait_compare" =>
             IF answer \in {"YES", "yes"}
             THEN /\ pc' = Head(stack)
                  /\ stack' = Tail(stack)
                  /\ UNCHANGED <<exc, outcome, written, initial_state,
                                 device_model, el_21, draining_required,
                                 flushing_required,
                                 wel, wrs, cwp, crs, trace, lastSwitches,
                                 lastRefState>>
             ELSE /\ pc' = "wait_input"
                  /\ UNCHANGED BesidesCheckpoint]_vars

C17_Witness ==
    /\ pc = "wait_compare"
    /\ answer = "yes"
    /\ Head(stack) = "draining_wait"

\* A step that raises LinkError.
LinkErrorRaised ==
    /\ Len(trace') > Len(trace)
    /\ trace'[Len(trace) + 1] = E("raise", "LinkError")

\* C18 as claimed: a call on the register link that fails is fatal, a write
\* as much as a read: the step that follows a toggle write the link did not
\* acknowledge raises LinkError, and the run does not go on to the settle
\* delay and the next step of the phase.
C18_FailedWriteFatal ==
    [][(pc = "write_settle" /\ ~written) => LinkErrorRaised]_vars

\* The positions of the history at which a fault of that kind was raised.
RaisedAt(kind) == {i \in 1..Len(trace) : trace[i] = E("raise", kind)}

\* Nothing but faults, the assertion of a finally clause and the diagnostics
\* of main follows in the history: no phase is entered, nothing is written,
\* no wait is started and the operator is asked nothing.
OnlyFaultsAfter(i) ==
    \A j \in (i + 1)..Len(trace) :
        trace[j][1] \in {"raise", "catch", "diagnostics", "assert"}

\* C19 as claimed: a wait that exceeds its deadline is fatal and is not
\* retried: the run does not succeed, no step of a phase follows the
\* PhaseTimeout, and the fault with which the run enters the except clause
\* of main is that PhaseTimeout, not a fault raised after it.
C19_TimeoutReachesSession ==
    \A i \in RaisedAt("PhaseTimeout") :
        /\ outcome # "success"
        /\ OnlyFaultsAfter(i)
        /\ pc = "main_except" => exc = "PhaseTimeout"

\* C20: a failed assertion of the operating state or of the refilling state
\* is fatal wherever it is made: from then on a fault is in flight, the run
\* can only end in failure, and nothing is written to a register (no phase
\* is entered and the operator is asked nothing either).
C20_UnexpectedStateFatal ==
    \A i \in RaisedAt("UnexpectedState") : Failing /\ OnlyFaultsAfter(i)

\* The toggle was written, the state read after it was not the expected one,
\* and the run is over in failure.
C20_Witness ==
    /\ pc = "done"
    /\ outcome = "failure"
    /\ HasKind("write")
    /\ RaisedAt("UnexpectedState") # {}
    /\ exc = "UnexpectedState"

\* C21 as claimed: no decision is taken on a value read earlier and kept.
\* The decision of _maintenance_on (to write maintenance-on or to go on
\* without the write) is taken on a read of the operating state made for it:
\* the family dispatch is reached only after _maintenance_on has read the
\* operating state as Maintenance mode.
C21_DecisionsOnOwnReads ==
    HasKind("dispatch") => HasEvent("state", "MAINTENANCE_MODE")

\* A wait for a refilling state has been entered with its budget and has
\* not polled yet.
MixingWaitEntered ==
    /\ pc = "wait_refilling_state"
    /\ wrs.elapsed = 0

\* C22 as claimed: the budget of the wait for DRAINING (flushing) and of the
\* wait for IDLE (finish-refilling) is exactly twice the mixing time the
\* register holds, whatever its value in milliseconds.
C22_TwiceMixingTime ==
    MixingWaitEntered => wrs.timeout * 1000 = 2 * wrs.mixing_time_ms

\* C22, amended: the budget, in seconds, is twice the whole seconds of the
\* mixing time: the milliseconds beyond a whole second are dropped before
\* the doubling, and a mixing time below 1000 ms gives a budget of 0.  The
\* flushing phase waits for DRAINING on it, finish-refilling for IDLE.
C22_TwiceWholeSeconds ==
    MixingWaitEntered =>
        /\ wrs.timeout = 2 * (wrs.mixing_time_ms \div 1000)
        /\ wrs.mixing_time_ms < 1000 => wrs.timeout = 0
        /\ Head(stack) = "flushing_draining" => wrs.expected_state = "DRAINING"
        /\ Head(stack) = "finish_warnings" => wrs.expected_state = "IDLE"
        /\ Head(stack) \in {"flushing_draining", "finish_warnings"}

\* The register holds 2500 ms and the flushing phase waits for DRAINING on a
\* budget of 4 seconds.
C22_Witness ==
    /\ MixingWaitEntered
    /\ wrs.expected_state = "DRAINING"
    /\ wrs.mixing_time_ms = 2500
    /\ wrs.timeout = 4

\* C23: decoding an events register (the count word, then the code words)
\* gives the empty list when the count is 0, whatever the code words hold,
\* and for a count N > 0 gives min(N, capacity) entries, the i-th entry
\* being the i-th code word with its name.
C23_DecodeLength ==
    pc = "decoded" =>
        LET event_type == trace[1][2][1]
            raw_events_data == trace[1][2][2]
            events == trace[2][2]
            capacity == Len(raw_events_data) - 1
            count == raw_events_data[1]
        IN  /\ capacity = EventCap
            /\ count = 0 => events = <<>>
            /\ count > 0 =>
                  /\ Len(events) = Min(count, capacity)
                  /\ \A i \in 1..Len(events) :
                        events[i] =
                           format_event(
                              EventName(event_type, raw_events_data[i + 1]),
                              raw_events_data[i + 1])

\* A register whose count is above the capacity and whose code words
\* differ has been decoded: one entry per code word, in register order.
C23_Witness ==
    /\ pc = "decoded"
    /\ trace[1][2][2][1] = EventCap + 1
    /\ trace[1][2][2][2] = WR_20
    /\ trace[1][2][2][EventCap + 1] = WR_10
    /\ Len(trace[2][2]) = EventCap
    /\ trace[2][2][1][2] = WR_20
    /\ trace[2][2][EventCap][2] = WR_10

\* A step that raises UnexpectedState.
UnexpectedStateRaised ==
    /\ Len(trace') > Len(trace)
    /\ trace'[Len(trace) + 1] = E("raise", "UnexpectedState")

\* The steps that assert a refilling state or dispatch on it.
AssertsRefillingState ==
    pc \in {"check_refilling_state", "m21_dispatch", "m4x_dispatch"}

\* C24: a register value that is no listed code decodes to UNKNOWN, for the
\* operating state, the refilling state, the warnings and the errors alike;
\* an operating state read as UNKNOWN at the pre-flight gate ends the run as
\* a clean exit with nothing written, and a refilling state read as UNKNOWN
\* by a state assertion or by the family dispatch raises UnexpectedState.
C24_UnknownFallback ==
    [][/\ \A raw \in StateRaw \ (0..(Len(StateNames) - 1)) :
             State(raw) = "UNKNOWN"
       /\ \A raw \in RefillingStateRaw \ (0..(Len(RefillingStateNames) - 1)) :
             RefillingState(raw) = "UNKNOWN"
       /\ \A raw \in WarningCodes \ {WR_10, WR_20, WR_21, WR_22, WP_04} :
             ElWarning(raw) = "UNKNOWN"
       /\ \A raw \in ErrorCodes \ {FP_01, FR_10} : ElError(raw) = "UNKNOWN"
       /\ (pc = "main_state" /\ initial_state' = "UNKNOWN") =>
             /\ pc' = "done"
             /\ outcome' = "clean_exit"
             /\ exc' = None
             /\ trace' = <<>>
       /\ (AssertsRefillingState /\ lastRefState' = "UNKNOWN") =>
             UnexpectedStateRaised]_vars

\* After the assertion of KOH_REFILLING had passed, a later assertion read
\* a refilling state that is no listed code, and the run is failing with
\* the UnexpectedState it raised.
C24_Witness ==
    /\ pc = "main_except"
    /\ exc = "UnexpectedState"
    /\ lastRefState = "UNKNOWN"
    /\ HasEvent("assert", "KOH_REFILLING")
    /\ trace[Len(trace)] = E("raise", "UnexpectedState")

\* C25: every write to a holding register is followed by the settle delay
\* of REGISTER_WRITE_TIMEOUT (2) seconds before anything else: while the
\* write is the latest event the script is at the delay, where it reads and
\* writes nothing, and once anything has followed the write, the delay is
\* what follows it.
C25_SettleDelay ==
    /\ REGISTER_WRITE_TIMEOUT = 2
    /\ pc = "write_settle" <=>
          (trace # <<>> /\ trace[Len(trace)][1] = "write")
    /\ \A i \in 1..(Len(trace) - 1) :
          trace[i][1] = "write" =>
             trace[i + 1] = E("sleep", REGISTER_WRITE_TIMEOUT)

\* Maintenance-on and maintenance-off have both been written and settled,
\* and the script is at the state read that follows maintenance-off.
C25_Witness ==
    /\ pc = "maintenance_off_state"
    /\ HasEvent("write", <<MAINTENANCE_REG, 1>>)
    /\ Len(trace) > 1
    /\ trace[Len(trace) - 1] = E("write", <<MAINTENANCE_REG, 0>>)
    /\ trace[Len(trace)] = E("sleep", REGISTER_WRITE_TIMEOUT)

\* C26: when every call on the register link returns and the operator types
\* the token at every checkpoint in the end, every run ends (in success, as
\* a clean exit or in failure), whatever the device reports; nothing but
\* the operator's confirmation is assumed, the waits and the retries of the
\* script being bounded by themselves.
C26_RunTerminates ==
    <>(pc = "done" /\ outcome \in {"success", "clean_exit", "failure"})

\* An EL4x run that went through flushing, with its checkpoints, its waits
\* and its water-pipe check, has ended in success.
C26_Witness ==
    /\ pc = "done"
    /\ outcome = "success"
    /\ HasEvent("done", "flushing")
    /\ HasKind("checkpoint")

\* A step that raises PhaseTimeout.
PhaseTimeoutRaised ==
    /\ Len(trace') > Len(trace)
    /\ trace'[Len(trace) + 1] = E("raise", "PhaseTimeout")

\* C27 as claimed: whatever its budget, a budget of 0 seconds included, the
\* wait for a refilling state polls the device before it can fail: the step
\* a wait begins with (no time of its budget has passed) does not raise
\* PhaseTimeout.
C27_PollBeforeTimeout ==
    [][(pc = "wait_refilling_state" /\ wrs.elapsed = 0) =>
          ~PhaseTimeoutRaised]_vars

\* A step that writes maintenance-off.
MaintenanceOffWritten ==
    trace' = Append(trace, E("write", <<MAINTENANCE_REG, 0>>))

\* C28: maintenance-off is written at most once in a run, and only when no
\* fault has gone uncaught, the latest refilling state read was
\* KOH_REFILLING_FINISH and, for EL21, the check of the refilling warnings
\* that found none is the latest step before it, for EL4x the turn-off
\* checkpoint, which the operator confirmed.
C28_MaintenanceOffGuard ==
    [][MaintenanceOffWritten =>
          /\ ~HasEvent("write", <<MAINTENANCE_REG, 0>>)
          /\ exc = None
          /\ Uncaught = {}
          /\ lastRefState = "KOH_REFILLING_FINISH"
          /\ HasEvent("assert", "KOH_REFILLING_FINISH")
          /\ trace # <<>>
          /\ device_model = "EL21" =>
                trace[Len(trace)] = E("warnings", "checked")
          /\ device_model # "EL21" =>
                /\ device_model \in FamilyEL4x
                /\ trace[Len(trace)] = E("checkpoint", "m4x_off")
          /\ pc = "maintenance_off"]_vars

\* An EL4x run has written maintenance-off after a refilling in which an
\* overshoot was caught.
C28_Witness ==
    /\ device_model \in FamilyEL4x
    /\ HasEvent("write", <<MAINTENANCE_REG, 0>>)
    /\ "LevelOvershoot" \in Caught
    /\ pc = "write_settle"

\* A step that writes the flushing register.
FlushingWritten ==
    /\ Len(trace') = Len(trace) + 1
    /\ trace'[Len(trace')][1] = "write"
    /\ trace'[Len(trace')][2][1] = FLUSHING_REG

\* C29: the flushing trigger is written only after the first flushing
\* checkpoint, a water-pipe check that returned, and the second flushing
\* checkpoint, in that order and with nothing in between, and when it is
\* written the latest refilling state read was WAIT_FLUSHING and the latest
\* level read was EMPTY.
C29_FlushingGuard ==
    [][FlushingWritten =>
          /\ pc = "flushing_on"
          /\ exc = None
          /\ Len(trace) >= 3
          /\ SubSeq(trace, Len(trace) - 2, Len(trace)) =
                <<E("checkpoint", "flushing_pipe"), E("pipe", "ok"),
                  E("checkpoint", "flushing_on")>>
          /\ HasEvent("phase", "flushing")
          /\ lastRefState = "WAIT_FLUSHING"
          /\ LevelWasRead
          /\ electrolyte_level(lastSwitches).ok
          /\ electrolyte_level(lastSwitches).level = EMPTY]_vars

\* The flushing trigger has been written in a run whose dispatch found
\* DRAINING: the draining came first, then the flushing phase.
C29_Witness ==
    /\ pc = "write_settle"
    /\ trace[Len(trace)] = E("write", <<FLUSHING_REG, 0>>)
    /\ HasEvent("dispatch", "DRAINING")
    /\ lastRefState = "WAIT_FLUSHING"

\* The writes issued so far, as <<address, value>>.
Writes == {trace[i][2] : i \in {j \in 1..Len(trace) : trace[j][1] = "write"}}

\* C30: a run writes nothing but 1 to the maintenance register (1013), 0 to
\* the maintenance register and 0 to the flushing register (1015): never 1
\* to the flushing register, never another register, and an EL21 run never
\* the flushing register.
C30_WriteSet ==
    /\ MAINTENANCE_REG = 1013
    /\ FLUSHING_REG = 1015
    /\ Writes \subseteq {<<MAINTENANCE_REG, 1>>, <<MAINTENANCE_REG, 0>>,
                         <<FLUSHING_REG, 0>>}
    /\ device_model \notin FamilyEL4x =>
          \A w \in Writes : w[1] # FLUSHING_REG

\* An EL4x run has ended in success having issued all three writes.
C30_Witness ==
    /\ pc = "done"
    /\ outcome = "success"
    /\ device_model \in FamilyEL4x
    /\ Writes = {<<MAINTENANCE_REG, 1>>, <<MAINTENANCE_REG, 0>>,
                 <<FLUSHING_REG, 0>>}

\* A step that writes maintenance-on.
MaintenanceOnWritten ==
    trace' = Append(trace, E("write", <<MAINTENANCE_REG, 1>>))

\* C31: _maintenance_on writes maintenance-on exactly when the operating
\* state handed down from the pre-flight gate is IDLE, and nothing else
\* writes it; the state read after the write lets the run go on only as
\* MAINTENANCE_MODE, any other state read raising UnexpectedState; when the
\* state handed down is MAINTENANCE_MODE, _maintenance_on returns at once,
\* nothing written and nothing read.
C31_MaintenanceOn ==
    [][/\ MaintenanceOnWritten =>
             (pc = "maintenance_on" /\ initial_state = "IDLE")
       /\ pc = "maintenance_on" =>
             IF initial_state = "IDLE"
             THEN /\ MaintenanceOnWritten
                  /\ pc' = "write_settle"
                  /\ Head(stack') = "maintenance_on_state"
             ELSE /\ initial_state = "MAINTENANCE_MODE"
                  /\ trace' = trace
                  /\ pc' = Head(stack)
                  /\ pc' \in {"m21_dispatch", "m4x_dispatch"}
       /\ pc = "maintenance_on_state" =>
             /\ Len(trace) >= 2
             /\ SubSeq(trace, Len(trace) - 1, Len(trace)) =
                   <<E("write", <<MAINTENANCE_REG, 1>>),
                     E("sleep", REGISTER_WRITE_TIMEOUT)>>
             /\ \/ /\ trace' = Append(trace, E("state", "MAINTENANCE_MODE"))
                   /\ pc' \in {"m21_dispatch", "m4x_dispatch"}
                   /\ exc' = None
                \/ /\ trace' = Append(trace, E("raise", "UnexpectedState"))
                   /\ pc' = "main_except"
                \/ /\ trace' = Append(trace, E("raise", "LinkError"))
                   /\ pc' = "main_except"]_vars

\* From IDLE, maintenance-on was written and the state read after it was
\* not MAINTENANCE_MODE: the run is failing with UnexpectedState.
C31_Witness ==
    /\ initial_state = "IDLE"
    /\ pc = "main_except"
    /\ exc = "UnexpectedState"
    /\ trace = <<E("write", <<MAINTENANCE_REG, 1>>),
                 E("sleep", REGISTER_WRITE_TIMEOUT),
                 E("raise", "UnexpectedState")>>

\* C32: in an EL4x run the refilling state read after maintenance-on
\* selects the branch: DRAINING the draining with flushing required,
\* WAIT_FLUSHING no draining with flushing required, MAINTENANCE neither,
\* any other state UnexpectedState.  The refilling state read again before
\* the flushing decides: flushing is entered exactly when it was required
\* and that read is not MAINTENANCE, otherwise refilling follows.  The body
\* of the flushing phase (from its first checkpoint on) runs only with
\* WAIT_FLUSHING as the latest state read.
C32_Resumption4x ==
    [][/\ pc = "m4x_dispatch" =>
             CASE lastRefState' = "DRAINING" ->
                     /\ pc' = "perform_draining"
                     /\ Head(stack') = "m4x_recheck"
                     /\ draining_required' /\ flushing_required'
               [] lastRefState' = "WAIT_FLUSHING" ->
                     /\ pc' = "m4x_recheck"
                     /\ ~draining_required' /\ flushing_required'
               [] lastRefState' = "MAINTENANCE" ->
                     /\ pc' = "m4x_recheck"
                     /\ ~draining_required' /\ ~flushing_required'
               [] lastRefState' = None ->
                     /\ trace' = Append(trace, E("raise", "LinkError"))
                     /\ pc' = "main_except"
               [] OTHER ->
                     /\ trace' = Append(trace, E("raise", "UnexpectedState"))
                     /\ pc' = "main_except"
       /\ pc = "m4x_recheck" =>
             IF lastRefState' = None
             THEN pc' = "main_except" /\ exc' = "LinkError"
             ELSE IF flushing_required /\ lastRefState' # "MAINTENANCE"
             THEN /\ pc' = "perform_flushing"
                  /\ Head(stack') = "m4x_refilling"
             ELSE pc' = "m4x_refilling"
       /\ pc = "flushing_confirm" => lastRefState = "WAIT_FLUSHING"]_vars

\* WAIT_FLUSHING at the dispatch and again at the second read: the body of
\* the flushing phase has been entered and no draining has been done.
C32_Witness ==
    /\ device_model \in FamilyEL4x
    /\ pc = "flushing_confirm"
    /\ HasEvent("dispatch", "WAIT_FLUSHING")
    /\ ~HasEvent("phase", "draining")
    /\ HasEvent("assert", "WAIT_FLUSHING")

\* C33 as claimed: an attempt of the water-pipe check that expects no
\* electrolyte and reads a level other than EMPTY runs the draining phase
\* and then asserts WAIT_FLUSHING; when that assertion has passed, the
\* attempt is a failed one, whatever its pressure reading: the check does
\* not return from it, the retry prompt and the next attempt follow.
C33_InlineDrainingFails ==
    [][/\ (/\ pc = "pipe_electrolyte"
           /\ Len(lastSwitches') = 4
           /\ electrolyte_level(lastSwitches').ok
           /\ electrolyte_level(lastSwitches').level # EMPTY) =>
             /\ pc' = "perform_draining"
             /\ Head(stack') = "pipe_drained"
       /\ pc = "pipe_drained" =>
             /\ pc' = "check_refilling_state"
             /\ crs' = "WAIT_FLUSHING"
             /\ Head(stack') = "pipe_decide"
       /\ (/\ pc = "check_refilling_state"
           /\ Head(stack) = "pipe_decide"
           /\ pc' = "pipe_decide") =>
             ~(cwp'.pressure_ok /\ cwp'.electrolyte_ok)]_vars

\* C34: the draining phase shows its checkpoint only after a read of the
\* refilling state that gave DRAINING; no deadline runs while the operator
\* is asked; the step after the operator's confirmation starts the wait for
\* EMPTY with the whole budget of 600 seconds; and the phase returns only
\* from a poll of that wait whose level read is EMPTY.
C34_DrainingPhase ==
    [][/\ DRAINING_TIMEOUT = 600
       /\ pc = "draining_confirm" =>
             /\ lastRefState = "DRAINING"
             /\ wel = NoWel
             /\ pc' = "wait_confirmation"
             /\ Head(stack') = "draining_wait"
       /\ (pc = "wait_compare" /\ Head(stack) = "draining_wait") =>
             /\ wel = NoWel
             /\ pc' = "draining_wait" <=> Upper(answer) = INPUT_CONFIRMATION
       /\ pc' = "draining_wait" => pc = "wait_compare"
       /\ pc = "draining_wait" =>
             /\ wel' = [expected_level |-> EMPTY, timeout |-> 600,
                        refilling |-> FALSE, elapsed |-> 0]
             /\ pc' = "wait_electrolyte_level"
             /\ Head(stack') = "draining_return"
       /\ pc' = "draining_return" =>
             /\ pc = "wait_electrolyte_level"
             /\ wel.expected_level = EMPTY
             /\ wel.elapsed < wel.timeout
             /\ Len(lastSwitches') = 4
             /\ electrolyte_level(lastSwitches').ok
             /\ electrolyte_level(lastSwitches').level = EMPTY]_vars

\* The draining phase of the sequence, its checkpoint shown and confirmed,
\* has ended its wait on a read of EMPTY.
C34_Witness ==
    /\ pc = "draining_return"
    /\ lastRefState = "DRAINING"
    /\ HasEvent("checkpoint", "draining_wait")
    /\ LevelWasRead
    /\ electrolyte_level(lastSwitches).level = EMPTY
    /\ HasEvent("level", EMPTY)

\* The codes of the active warnings of a warnings register: those of its
\* first count code words.
ActiveCodes(raw) == {raw[i + 1] : i \in 1..Min(raw[1], Len(raw) - 1)}

\* C35: the refilling-warnings check, run on a warnings register, raises
\* exactly when one of the active warnings is WR_10, WR_20, WR_21 or WR_22;
\* with no active warning, or with other active warnings only (unlisted
\* codes included), it returns and raises nothing.
C35_RefillingWarnings ==
    pc # "check_refilling_warnings" =>
        LET raw == trace[1][2][2]
        IN  IF ActiveCodes(raw) \cap {WR_10, WR_20, WR_21, WR_22} # {}
            THEN /\ pc = "main_except"
                 /\ exc = "RefillingWarnings"
                 /\ trace[Len(trace)] = E("raise", "RefillingWarnings")
            ELSE /\ pc = "warned"
                 /\ exc = None
                 /\ trace[Len(trace)] = E("warnings", "checked")
                 /\ Raised = {}

\* One warning is active, WP_04 or a code the script does not list, and a
\* refilling warning stands in a code word beyond the count: the check has
\* returned.
C35_Witness ==
    /\ pc = "warned"
    /\ trace[1][2][2][1] = 1
    /\ trace[1][2][2][2] \in {WP_04, 1}
    /\ trace[1][2][2][3] = WR_10

\* The device model read gave no name of a family: a name the script does
\* not list, or words that are no name.
NoFamilyRead == Raised \cap {"UnknownModel", "ValueError"} # {}

\* C36: the sequences of both families, every phase and every write belong
\* to a run whose device model read gave EL21, EL40, ES40 or ES41.  When
\* the read gives anything else the run goes to the except clause of main
\* at once and ends in failure: the history holds the faults raised and the
\* diagnostics of main, no phase, no checkpoint and no write.
C36_UnknownFamily ==
    /\ device_model \in {None, "EL21"} \cup FamilyEL4x
    /\ (HasKind("phase") \/ Writes # {}) =>
          device_model \in {"EL21"} \cup FamilyEL4x
    /\ NoFamilyRead =>
          /\ device_model = None
          /\ pc \in {"main_except", "done"}
          /\ exc # None
          /\ pc = "done" => outcome = "failure"
          /\ trace[1][1] = "raise"
          /\ trace[1][2] \in {"UnknownModel", "ValueError"}
          /\ OnlyFaultsAfter(1)
          /\ ~HasKind("assert")
          /\ Writes = {}

\* The device model read gave a name of no family; the diagnostics were
\* read and the run has ended in failure with that fault.
C36_Witness ==
    /\ pc = "done"
    /\ outcome = "failure"
    /\ exc = "UnknownModel"
    /\ initial_state = "IDLE"
    /\ trace = <<E("raise", "UnknownModel"), E("diagnostics", "errors"),
                 E("diagnostics", "warnings")>>


====
